---- MODULE Spec2Model ----
(***************************************************************************)
(* Model of the FinLLM-Server query service: the stock resolver            *)
(* (routes/query.py find_stock_by_name), the /query/simple, /query/filter  *)
(* and /query/signal handlers and the /technical/* routes, over a          *)
(* relational store of Stock, DailyPrice and TechnicalIndicator rows.      *)
(*                                                                         *)
(* Conventions                                                             *)
(*   - a text value is a sequence of one-character strings; the empty      *)
(*     sequence stands for Python None / "" (both falsy) and for SQL NULL; *)
(*   - an optional number is <<>> (None / NULL) or <<v>>;                  *)
(*   - a date value is a day ordinal (day 1 = BaseYear-01-01); a date      *)
(*     parameter is the triple <<year, month, day>> of its text fields;    *)
(*   - a Float column holds integers here and every ratio is kept exact    *)
(*     as a pair <<numerator, denominator>> with a positive denominator.   *)
(***************************************************************************)
EXTENDS Integers, Sequences, FiniteSets, TLC

VARIABLES stocks, prices, tech, market_stats, market_indices, req, resp,
          threads, sessions, http_client

vars == <<stocks, prices, tech, market_stats, market_indices, req, resp,
          threads, sessions, http_client>>

\* The five tables.
store == <<stocks, prices, tech, market_stats, market_indices>>

(***************************************************************************)
(* Bounds of the model.                                                    *)
(***************************************************************************)
NumStocks == 2

StockIds == 1..NumStocks

(***************************************************************************)
(* Optional values.                                                        *)
(***************************************************************************)
Null == <<>>

Some(v) == <<v>>

IsNull(x) == x = <<>>

Val(x) == x[1]

\* Python truthiness of an optional number: None and 0 are falsy.
Truthy(x) == x # <<>> /\ x[1] # 0

(***************************************************************************)
(* Text.                                                                   *)
(***************************************************************************)
\* s contains q as a contiguous substring (Python `in`, a literal match).
Contains(s, q) ==
    \E i \in 0..Len(s) :
        /\ i + Len(q) <= Len(s)
        /\ \A j \in 1..Len(q) : s[i + j] = q[j]

\* SQL LIKE: in the pattern "%" matches any run of characters and "_" any
\* single character.
RECURSIVE LikeMatch(_, _)
LikeMatch(p, s) ==
    IF p = <<>> THEN s = <<>>
    ELSE IF Head(p) = "%"
         THEN LikeMatch(Tail(p), s) \/ (s # <<>> /\ LikeMatch(p, Tail(s)))
    ELSE IF s = <<>> THEN FALSE
    ELSE (Head(p) = "_" \/ Head(p) = Head(s)) /\ LikeMatch(Tail(p), Tail(s))

\* Column.contains(q) of SQLAlchemy renders  column LIKE '%' || q || '%'
\* with q passed through unescaped; a NULL column never matches.
ColumnContains(col, q) ==
    /\ ~IsNull(col)
    /\ LikeMatch(<<"%">> \o q \o <<"%">>, col)

\* column == q in a filter: NULL = q is not true.
ColumnEquals(col, q) == ~IsNull(col) /\ col = q

(***************************************************************************)
(* The store.  stocks maps a stock_id to its Stock row; prices, tech,      *)
(* market_stats and market_indices are the sets of DailyPrice,             *)
(* TechnicalIndicator, MarketStat and MarketIndex rows.  The handlers only *)
(* read them.                                                              *)
(***************************************************************************)
Markets == {"KOSPI", "KOSDAQ"}

MarketFilters == Markets \cup {"ALL"}

\* Stock.symbol is unique and not null: stock i carries the i-th symbol.
SymbolList == << <<"a", "b">>, <<"b">>, <<"b", "a">>, <<"a", "a">>, <<"a", "b", "a">> >>

NameSet == { <<"a">>, <<"a", "b">>, <<"b">> }

KrxCodeSet == { Null, <<"b">> }

StockRows(i) ==
    [stock_id : {i}, symbol : {SymbolList[i]}, krx_code : KrxCodeSet,
     name : NameSet, market : Markets, is_active : BOOLEAN]

StockTables ==
    { t \in [StockIds -> UNION { StockRows(i) : i \in StockIds }] :
        \A i \in StockIds : t[i].stock_id = i }

\* None, as returned by Query.first() on an empty result and by the resolver.
NoStock == 0

\* Query.first(): some row of the result (the store's order is not fixed by
\* the query), or None when there is none.
First(rows) == IF rows = {} THEN {NoStock} ELSE rows

(***************************************************************************)
(* find_stock_by_name                                                      *)
(***************************************************************************)
\* ActiveStocks without the is_active filter.
ActiveStocks_NoActiveFilter(market) ==
    { i \in StockIds : market # "ALL" => stocks[i].market = market }

\* base_query: active stocks, of the requested market unless it is "ALL".
ActiveStocks(market) ==
    { i \in StockIds :
        /\ stocks[i].is_active = TRUE
        /\ (market # "ALL" => stocks[i].market = market) }

\* ExactNameMatches with containment in place of equality.
ExactNameMatches_Contains(base, q) ==
    { i \in base : ColumnContains(stocks[i].name, q) }

ExactNameMatches(base, q) == { i \in base : ColumnEquals(stocks[i].name, q) }

SymbolMatches(base, q) == { i \in base : ColumnEquals(stocks[i].symbol, q) }

KrxCodeMatches(base, q) == { i \in base : ColumnEquals(stocks[i].krx_code, q) }

PartialMatches(base, q) ==
    { i \in base :
        \/ ColumnContains(stocks[i].name, q)
        \/ ColumnContains(stocks[i].symbol, q)
        \/ ColumnContains(stocks[i].krx_code, q) }

\* StagedLookup with the KRX-code stage ahead of the symbol stage.
StagedLookup_CodeBeforeSymbol(base, q) ==
    IF { i \in base : ColumnEquals(stocks[i].name, q) } # {}
    THEN First({ i \in base : ColumnEquals(stocks[i].name, q) })
    ELSE IF { i \in base : ColumnEquals(stocks[i].krx_code, q) } # {}
    THEN First({ i \in base : ColumnEquals(stocks[i].krx_code, q) })
    ELSE IF { i \in base : ColumnEquals(stocks[i].symbol, q) } # {}
    THEN First({ i \in base : ColumnEquals(stocks[i].symbol, q) })
    ELSE First({ i \in base :
                   \/ ColumnContains(stocks[i].name, q)
                   \/ ColumnContains(stocks[i].symbol, q)
                   \/ ColumnContains(stocks[i].krx_code, q) })

\* The values find_stock_by_name(db, q, market) can return: the first stage
\* with a row decides, its row being whichever the store yields first.
StagedLookup(base, q) ==
    IF ExactNameMatches(base, q) # {} THEN First(ExactNameMatches(base, q))
    ELSE IF SymbolMatches(base, q) # {} THEN First(SymbolMatches(base, q))
    ELSE IF KrxCodeMatches(base, q) # {} THEN First(KrxCodeMatches(base, q))
    ELSE First(PartialMatches(base, q))

FindStockByName(q, market) == StagedLookup(ActiveStocks(market), q)

\* The identifiers a caller passes to the resolver.
QueryTexts ==
    { <<"a">>, <<"b">>, <<"a", "b">>, <<"b", "b">>, <<"a", "_">>, <<"_">>, <<"%">> }

NoRequest == [op |-> "none"]

NoResponse == [kind |-> "none", status |-> 0]

\* What the process holds besides the tables: the requests that the thread
\* pool runs side by side, the session that get_db hands to each of them,
\* and the HTTP client that routes/financial.py creates at import.
pool == <<threads, sessions, http_client>>

NumThreads == 2

ThreadIds == 1..NumThreads

IdleThread == [req |-> NoRequest, pc |-> "idle", db |-> 0, resp |-> NoResponse]

\* SessionLocal(): a session that has loaded nothing yet.
NoSession == [found |-> 0, pending |-> <<>>, acc |-> <<>>]

\* The process after import, before any request.
PoolAtRest ==
    /\ threads = [t \in ThreadIds |-> IdleThread]
    /\ sessions = [s \in ThreadIds |-> NoSession]
    /\ http_client = "unopened"

\* The worker serves one request at a time: a handler starts when none is
\* in progress.
Idle == req = NoRequest

\* Variant: the response of the finished request stays behind.
Finish_KeepsResponse ==
    /\ req # NoRequest
    /\ req' = NoRequest
    /\ resp' = resp
    /\ UNCHANGED <<store, pool>>

\* The request is over: its response is sent and get_db's finally closes
\* the session.  Nothing of the request is kept.
Finish ==
    /\ req # NoRequest
    /\ req' = NoRequest
    /\ resp' = NoResponse
    /\ UNCHANGED <<store, pool>>

\* One call find_stock_by_name(db, q, market), as simple_query and
\* signal_query make it.
ResolveStock ==
    /\ Idle
    /\ \E q \in QueryTexts, m \in MarketFilters :
        \E r \in FindStockByName(q, m) :
            /\ req' = [op |-> "find_stock_by_name", stock |-> q, market |-> m]
            /\ resp' = [kind |-> "stock", status |-> 0, stock_id |-> r]
            /\ UNCHANGED <<store, pool>>

InitResolver ==
    /\ stocks \in StockTables
    /\ prices = {}
    /\ tech = {}
    /\ market_stats = {}
    /\ market_indices = {}
    /\ req = NoRequest
    /\ resp = NoResponse
    /\ PoolAtRest

NextResolver == ResolveStock \/ Finish

SpecResolver == InitResolver /\ [][NextResolver]_vars

(***************************************************************************)
(* Dates.  parse_date is datetime.strptime(text, "%Y-%m-%d"): the text     *)
(* <<y, m, d>> is accepted when it names a day of the calendar and is      *)
(* rejected with ValueError otherwise.  NoDate is an absent (None) date    *)
(* parameter.                                                              *)
(***************************************************************************)
NoDate == <<>>

IsLeap(y) == (y % 4 = 0 /\ y % 100 # 0) \/ y % 400 = 0

DaysInMonth(y, m) ==
    IF m = 2 THEN (IF IsLeap(y) THEN 29 ELSE 28)
    ELSE IF m \in {4, 6, 9, 11} THEN 30 ELSE 31

IsCalendarDate(ds) ==
    /\ Len(ds) = 3
    /\ ds[1] \in 1..9999
    /\ ds[2] \in 1..12
    /\ ds[3] \in 1..DaysInMonth(ds[1], ds[2])

RECURSIVE DaysBeforeMonth(_, _)
DaysBeforeMonth(y, m) ==
    IF m = 1 THEN 0 ELSE DaysBeforeMonth(y, m - 1) + DaysInMonth(y, m - 1)

\* Days from 2024-01-01 (day 1) to the first day of year y.
RECURSIVE DaysBeforeYear(_)
DaysBeforeYear(y) ==
    IF y = 2024 THEN 0
    ELSE IF y > 2024
         THEN DaysBeforeYear(y - 1) + (IF IsLeap(y - 1) THEN 366 ELSE 365)
    ELSE DaysBeforeYear(y + 1) - (IF IsLeap(y) THEN 366 ELSE 365)

\* date.toordinal(), shifted so that 2024-01-01 is day 1.
DayOrdinal(ds) == DaysBeforeYear(ds[1]) + DaysBeforeMonth(ds[1], ds[2]) + ds[3]

(***************************************************************************)
(* Outcomes of a handler body.  A body either returns a response or raises *)
(* an exception: an HTTPException carries its status code, any other       *)
(* exception (ValueError, TypeError, UnboundLocalError, a driver error)    *)
(* has code 0.                                                             *)
(***************************************************************************)
Raise(code, what) == [kind |-> "raise", status |-> code, cause |-> what]

HttpError(code, what) == [kind |-> "error", status |-> code, cause |-> what]

\* helpers.parse_date: strptime's ValueError becomes HTTPException(400).
ParseDateFails(ds) == ~IsCalendarDate(ds)

InvalidDate(ds) == Raise(400, "invalid_date")

\* datetime.strptime used directly by the /technical/* routes.
StrptimeError(ds) == Raise(0, "ValueError")

\* `except Exception as e: raise HTTPException(status_code=500, ...)` around
\* a whole handler body: HTTPException is an Exception, so every exception
\* raised in the body, the handler's own 400 and 404 included, leaves the
\* handler as a 500 whose detail is built from str(e).
CatchAll(outcome) ==
    IF outcome.kind = "raise"
    THEN HttpError(500, <<outcome.status, outcome.cause>>)
    ELSE outcome

(***************************************************************************)
(* Lists.                                                                  *)
(***************************************************************************)
\* Every order in which the rows of a result set can come back.
RECURSIVE Perms(_)
Perms(S) ==
    IF S = {} THEN {<<>>}
    ELSE UNION { { <<x>> \o p : p \in Perms(S \ {x}) } : x \in S }

\* The lists an ORDER BY, or list.sort over rows fetched in the store's
\* order, can produce: rows that tie under the key keep the order in which
\* the store happened to deliver them.
OrderedPerms(S, MayPrecede(_, _)) ==
    { p \in Perms(S) : \A i \in 1..(Len(p) - 1) : MayPrecede(p[i], p[i + 1]) }

\* Python results[:limit]; a negative limit drops the last -limit entries.
PySlice(seq, limit) ==
    LET n == Len(seq)
        k == IF limit >= 0
             THEN (IF limit < n THEN limit ELSE n)
             ELSE (IF n + limit > 0 THEN n + limit ELSE 0)
    IN  SubSeq(seq, 1, k)

\* Query.limit(limit).all(): LIMIT n keeps the first n rows.  The store is
\* MySQL (models.py DATABASE_URL), which rejects a negative LIMIT.
SqlLimitFails(limit) == limit < 0

SqlLimit(seq, limit) == SubSeq(seq, 1, IF limit < Len(seq) THEN limit ELSE Len(seq))

\* Exact ratios <<n, d>>, d > 0.
Ratio(n, d) == IF d < 0 THEN <<0 - n, 0 - d>> ELSE <<n, d>>

RatioGE(a, b) == a[1] * b[2] >= b[1] * a[2]

(***************************************************************************)
(* signal_query                                                            *)
(*                                                                         *)
(* A signal_type is the list of its words between underscores:             *)
(* "rsi_overbought" is <<"rsi", "overbought">>.                            *)
(***************************************************************************)
RsiOverbought == <<"rsi", "overbought">>

RsiOversold == <<"rsi", "oversold">>

VolumeSurge == <<"volume", "surge">>

BollingerUpper == <<"bollinger", "upper">>

BollingerLower == <<"bollinger", "lower">>

MaBreakout == <<"ma", "breakout">>

GoldenCrossCount == <<"golden", "cross", "count">>

DeadCrossCount == <<"dead", "cross", "count">>

\* signal_type.endswith("_count")
EndsWithCount(t) == Len(t) >= 2 /\ t[Len(t)] = "count"

\* signal_type.startswith(w + "_")
StartsWith(t, w) == Len(t) >= 2 /\ t[1] = w

SignalResponse(r, list, thr) ==
    [kind |-> "signal_detection", status |-> 200, results |-> list,
     threshold |-> thr]

Entry(i, m) == [stock_id |-> i, metric |-> m]

\* ---- RSI --------------------------------------------------------------
RsiBase(d) ==
    { t \in tech :
        /\ t.date = d
        /\ stocks[t.stock_id].is_active = TRUE
        /\ ~IsNull(t.rsi) }

RsiDescending(a, b) == a.metric >= b.metric

RsiAscending(a, b) == a.metric <= b.metric

RsiSignal(r, d) ==
    IF r.signal_type = RsiOverbought
    THEN LET thr == IF Truthy(r.threshold) THEN Val(r.threshold) ELSE 70
             hit == { Entry(t.stock_id, Val(t.rsi)) :
                        t \in { u \in RsiBase(d) : Val(u.rsi) >= thr } }
         IN  IF SqlLimitFails(r.limit) THEN {Raise(0, "DatabaseError")}
             ELSE { SignalResponse(r, SqlLimit(p, r.limit), Some(thr)) :
                      p \in OrderedPerms(hit, RsiDescending) }
    ELSE IF r.signal_type = RsiOversold
    THEN LET thr == IF Truthy(r.threshold) THEN Val(r.threshold) ELSE 30
             hit == { Entry(t.stock_id, Val(t.rsi)) :
                        t \in { u \in RsiBase(d) : Val(u.rsi) <= thr } }
         IN  IF SqlLimitFails(r.limit) THEN {Raise(0, "DatabaseError")}
             ELSE { SignalResponse(r, SqlLimit(p, r.limit), Some(thr)) :
                      p \in OrderedPerms(hit, RsiAscending) }
    \* neither branch bound `query`: line 514 raises UnboundLocalError
    ELSE {Raise(0, "UnboundLocalError")}

\* ---- volume surge -----------------------------------------------------
MinObservations == 10

\* avg_volume_query: the stock's rows dated in [d - period, d - 1].
PriorWindow(i, d, period) ==
    { p \in prices :
        /\ p.stock_id = i
        /\ p.date <= d - 1
        /\ p.date >= d - period }

\* sum(p.volume for p in rows)
RECURSIVE SumVolumes(_)
SumVolumes(rows) ==
    IF rows = {} THEN 0
    ELSE LET p == CHOOSE x \in rows : TRUE
         IN  Val(p.volume) + SumVolumes(rows \ {p})

\* current_query: the rows of the query date of active stocks.
CurrentRows(d) ==
    { c \in prices : c.date = d /\ stocks[c.stock_id].is_active = TRUE }

\* Variant: one observation fewer is accepted.
EnoughObservations_Nine(w) == Cardinality(w) >= MinObservations - 1

EnoughObservations(w) == Cardinality(w) >= MinObservations

\* sum() over a NULL volume, or a NULL current volume divided by the mean,
\* raises TypeError.
SurgeRowRaises(c, d, period) ==
    LET w == PriorWindow(c.stock_id, d, period)
    IN  /\ EnoughObservations(w)
        /\ \/ \E p \in w : IsNull(p.volume)
           \/ (SumVolumes(w) > 0 /\ IsNull(c.volume))

\* surge_ratio = current volume / (sum / len) * 100
SurgeRatio(c, w) == Ratio(Val(c.volume) * 100 * Cardinality(w), SumVolumes(w))

\* Variant: the ratio must exceed the bar, not merely reach it.
SurgeRowQualifies_Strict(c, d, period, multiplier) ==
    LET w == PriorWindow(c.stock_id, d, period)
    IN  /\ EnoughObservations(w)
        /\ SumVolumes(w) > 0
        /\ ~RatioGE(<<multiplier * 100, 1>>, SurgeRatio(c, w))

SurgeRowQualifies(c, d, period, multiplier) ==
    LET w == PriorWindow(c.stock_id, d, period)
    IN  /\ EnoughObservations(w)
        /\ SumVolumes(w) > 0
        /\ RatioGE(SurgeRatio(c, w), <<multiplier * 100, 1>>)

\* Variant: the sort is ascending.
RatioDescending_Ascending(a, b) == RatioGE(b.metric, a.metric)

\* results.sort(key=..., reverse=True)
RatioDescending(a, b) == RatioGE(a.metric, b.metric)

VolumeSurgeSignal(r, d) ==
    LET multiplier == IF Truthy(r.volume_multiplier) THEN Val(r.volume_multiplier) ELSE 1
        cur == CurrentRows(d)
    IN  IF \E c \in cur : SurgeRowRaises(c, d, r.period)
        THEN {Raise(0, "TypeError")}
        ELSE LET hit == { Entry(c.stock_id,
                                SurgeRatio(c, PriorWindow(c.stock_id, d, r.period))) :
                            c \in { x \in cur :
                                      SurgeRowQualifies(x, d, r.period, multiplier) } }
             IN  { SignalResponse(r, PySlice(p, r.limit), r.threshold) :
                     p \in OrderedPerms(hit, RatioDescending) }

\* ---- Bollinger touch --------------------------------------------------
BollingerBase(d) ==
    { t \in tech :
        /\ t.date = d
        /\ stocks[t.stock_id].is_active = TRUE
        /\ ~IsNull(t.bb_upper_touch) }

AnyOrder(a, b) == TRUE

BollingerSignal(r, d) ==
    IF r.signal_type \in {BollingerUpper, BollingerLower}
    THEN LET rows == IF r.signal_type = BollingerUpper
                     THEN { t \in BollingerBase(d) : t.bb_upper_touch = Some(TRUE) }
                     ELSE { t \in BollingerBase(d) : t.bb_lower_touch = Some(TRUE) }
             hit == { Entry(t.stock_id, Null) : t \in rows }
         IN  IF SqlLimitFails(r.limit) THEN {Raise(0, "DatabaseError")}
             ELSE { SignalResponse(r, SqlLimit(p, r.limit), r.threshold) :
                      p \in OrderedPerms(hit, AnyOrder) }
    \* neither branch bound `query`: line 582 raises UnboundLocalError
    ELSE {Raise(0, "UnboundLocalError")}

\* ---- moving-average breakout ------------------------------------------
\* The joined (indicator, price) rows of the query date of active stocks.
BreakoutRows(d) ==
    { pair \in tech \X prices :
        /\ pair[1].stock_id = pair[2].stock_id
        /\ pair[1].date = pair[2].date
        /\ pair[1].date = d
        /\ stocks[pair[1].stock_id].is_active = TRUE }

\* Variant: any other period falls back to the 20-day average.
MaValue_OtherwiseMa20(t, period) ==
    IF period = 5 THEN t.ma5
    ELSE IF period = 60 THEN t.ma60
    ELSE t.ma20

\* Lines 614-620: ma_value stays None for any other period.
MaValue(t, period) ==
    IF period = 5 THEN t.ma5
    ELSE IF period = 20 THEN t.ma20
    ELSE IF period = 60 THEN t.ma60
    ELSE Null

\* deviation = (close - ma) / ma * 100
Deviation(t, p, period) ==
    Ratio((Val(p.close_price) - Val(MaValue(t, period))) * 100, Val(MaValue(t, period)))

\* Variant: the deviation must exceed the threshold, not merely reach it.
BreakoutQualifies_Strict(t, p, period, percent) ==
    /\ Truthy(MaValue(t, period))
    /\ Truthy(p.close_price)
    /\ ~RatioGE(<<percent, 1>>, Deviation(t, p, period))

BreakoutQualifies(t, p, period, percent) ==
    /\ Truthy(MaValue(t, period))
    /\ Truthy(p.close_price)
    /\ RatioGE(Deviation(t, p, period), <<percent, 1>>)

MaBreakoutSignal(r, d) ==
    LET period == IF Truthy(r.ma_period) THEN Val(r.ma_period) ELSE 20
        percent == IF Truthy(r.breakout_percent) THEN Val(r.breakout_percent) ELSE 3
        hit == { Entry(pair[1].stock_id, Deviation(pair[1], pair[2], period)) :
                   pair \in { x \in BreakoutRows(d) :
                                BreakoutQualifies(x[1], x[2], period, percent) } }
    IN  { SignalResponse(r, PySlice(p, r.limit), r.threshold) :
            p \in OrderedPerms(hit, RatioDescending) }

\* ---- the snapshot branch (lines 489-652) --------------------------------
SnapshotSignal(r) ==
    IF r.date = NoDate THEN {Raise(400, "date_required")}
    ELSE IF ParseDateFails(r.date) THEN {InvalidDate(r.date)}
    ELSE LET d == DayOrdinal(r.date)
         IN  IF StartsWith(r.signal_type, "rsi") THEN RsiSignal(r, d)
             ELSE IF r.signal_type = VolumeSurge THEN VolumeSurgeSignal(r, d)
             ELSE IF StartsWith(r.signal_type, "bollinger") THEN BollingerSignal(r, d)
             ELSE IF r.signal_type = MaBreakout THEN MaBreakoutSignal(r, d)
             ELSE {Raise(400, "unsupported_signal")}

\* ---- the cross-count branch (lines 427-487) ----------------------------
\* Variant: a row that follows a day whose row lacks an average is dropped
\* too, so that a gap breaks the adjacency.
CrossRows_BreakAtGap(i, a, b) ==
    { t \in tech :
        /\ t.stock_id = i
        /\ t.date >= a
        /\ t.date <= b
        /\ ~IsNull(t.ma5)
        /\ ~IsNull(t.ma20)
        /\ \A u \in tech :
             (u.stock_id = i /\ u.date = t.date - 1)
                => (~IsNull(u.ma5) /\ ~IsNull(u.ma20)) }

\* tech_data: the stock's rows in [a, b] with both averages present.
CrossRows(i, a, b) ==
    { t \in tech :
        /\ t.stock_id = i
        /\ t.date >= a
        /\ t.date <= b
        /\ ~IsNull(t.ma5)
        /\ ~IsNull(t.ma20) }

\* order_by(TechnicalIndicator.date)
RECURSIVE SortByDate(_)
SortByDate(rows) ==
    IF rows = {} THEN <<>>
    ELSE LET m == CHOOSE x \in rows : \A y \in rows : x.date <= y.date
         IN  <<m>> \o SortByDate(rows \ {m})

\* Variant: a golden cross needs MA5 strictly below MA20 on the earlier row.
RECURSIVE CrossScan_StrictBefore(_, _, _, _)
CrossScan_StrictBefore(seq, i, golden, dead) ==
    IF i > Len(seq) THEN <<golden, dead>>
    ELSE LET prev == seq[i - 1]
             curr == seq[i]
         IN  IF Val(prev.ma5) < Val(prev.ma20) /\ Val(curr.ma5) > Val(curr.ma20)
             THEN CrossScan_StrictBefore(seq, i + 1, golden + 1, dead)
             ELSE IF Val(prev.ma5) >= Val(prev.ma20) /\ Val(curr.ma5) < Val(curr.ma20)
             THEN CrossScan_StrictBefore(seq, i + 1, golden, dead + 1)
             ELSE CrossScan_StrictBefore(seq, i + 1, golden, dead)

\* The loop of lines 460-469 from index i on, with the counts so far.
RECURSIVE CrossScan(_, _, _, _)
CrossScan(seq, i, golden, dead) ==
    IF i > Len(seq) THEN <<golden, dead>>
    ELSE LET prev == seq[i - 1]
             curr == seq[i]
         IN  IF Val(prev.ma5) <= Val(prev.ma20) /\ Val(curr.ma5) > Val(curr.ma20)
             THEN CrossScan(seq, i + 1, golden + 1, dead)
             ELSE IF Val(prev.ma5) >= Val(prev.ma20) /\ Val(curr.ma5) < Val(curr.ma20)
             THEN CrossScan(seq, i + 1, golden, dead + 1)
             ELSE CrossScan(seq, i + 1, golden, dead)

\* Variant: too few rows are reported as not found.
CrossCountResponse_ShortIsNotFound(r, seq) ==
    IF Len(seq) < 2 THEN Raise(404, "insufficient_data")
    ELSE LET c == CrossScan(seq, 2, 0, 0)
         IN  [kind |-> "cross_count", status |-> 200, golden_cross_count |-> c[1],
              dead_cross_count |-> c[2], answer |-> <<"both", c[2], c[1]>>]

CrossCountResponse(r, seq) ==
    IF Len(seq) < 2
    THEN [kind |-> "cross_count", status |-> 200, golden_cross_count |-> 0,
          dead_cross_count |-> 0, answer |-> <<"insufficient_data">>]
    ELSE LET c == CrossScan(seq, 2, 0, 0)
         IN  [kind |-> "cross_count", status |-> 200, golden_cross_count |-> c[1],
              dead_cross_count |-> c[2],
              answer |-> IF r.signal_type = GoldenCrossCount THEN <<"golden", c[1]>>
                         ELSE IF r.signal_type = DeadCrossCount THEN <<"dead", c[2]>>
                         ELSE <<"both", c[2], c[1]>>]

CrossCountBranch(r) ==
    IF r.stock = <<>> \/ r.start_date = NoDate \/ r.end_date = NoDate
    THEN {Raise(400, "cross_count_parameters_required")}
    ELSE UNION {
           IF s = NoStock THEN {Raise(404, "stock_not_found")}
           ELSE IF ParseDateFails(r.start_date) THEN {InvalidDate(r.start_date)}
           ELSE IF ParseDateFails(r.end_date) THEN {InvalidDate(r.end_date)}
           ELSE {CrossCountResponse(r,
                    SortByDate(CrossRows(s, DayOrdinal(r.start_date),
                                         DayOrdinal(r.end_date))))}
           : s \in FindStockByName(r.stock, "ALL") }

IsCrossCountRequest(r) ==
    \/ EndsWithCount(r.signal_type)
    \/ (r.stock # <<>> /\ r.start_date # NoDate /\ r.end_date # NoDate)

\* The body of signal_query inside its try block.
SignalQueryBody(r) ==
    IF IsCrossCountRequest(r) THEN CrossCountBranch(r) ELSE SnapshotSignal(r)

\* GET /query/signal
SignalQuery(r) ==
    /\ Idle
    /\ \E out \in SignalQueryBody(r) :
        /\ req' = r
        /\ resp' = CatchAll(out)
        /\ UNCHANGED <<store, pool>>

SignalRequest(date, type, thr, mult, maPeriod, pct, stock, start, end, period, limit) ==
    [op |-> "signal_query", date |-> date, signal_type |-> type, threshold |-> thr,
     volume_multiplier |-> mult, ma_period |-> maPeriod, breakout_percent |-> pct,
     stock |-> stock, start_date |-> start, end_date |-> end, period |-> period,
     limit |-> limit]

(***************************************************************************)
(* simple_query                                                            *)
(***************************************************************************)
\* Lines 94-111: the same four lookups, over all active stocks.
InlineLookup(q) == StagedLookup(ActiveStocks("ALL"), q)

\* price_map.get(price_type, price_data.close_price)
PriceValue(p, priceType) ==
    IF priceType = "open" THEN p.open_price
    ELSE IF priceType = "high" THEN p.high_price
    ELSE IF priceType = "low" THEN p.low_price
    ELSE IF priceType = "change_rate" THEN p.change_rate
    ELSE p.close_price

PriceOf(i, d) == { p \in prices : p.stock_id = i /\ p.date = d }

\* Branch 1 (lines 87-148): the price of one stock on one date.
PriceLookup(r) ==
    IF ParseDateFails(r.date) THEN {InvalidDate(r.date)}
    ELSE UNION {
           IF s = NoStock THEN {Raise(404, "stock_not_found")}
           ELSE IF PriceOf(s, DayOrdinal(r.date)) = {}
           THEN {Raise(404, "price_not_found")}
           ELSE { [kind |-> "individual_price", status |-> 200,
                   value |-> PriceValue(p, r.price_type)] :
                    p \in PriceOf(s, DayOrdinal(r.date)) }
           : s \in InlineLookup(r.stock) }

StatOf(d, market) == { x \in market_stats : x.date = d /\ x.market = market }

StatField(x, statType) ==
    IF statType = "falling_count" THEN x.falling_stocks
    ELSE IF statType = "market_count" THEN x.total_stocks
    ELSE IF statType = "total_value" THEN x.total_value
    ELSE x.rising_stocks

\* (stat.f if stat else 0) for the first row of a (date, market) key.
StatOrZero(rows, statType) ==
    IF rows = {} THEN {0} ELSE { StatField(x, statType) : x \in rows }

StatResponse(v) == [kind |-> "market_stats", status |-> 200, value |-> v]

\* Branch 2 (lines 151-228): a market statistic or index.
MarketStatLookup(r) ==
    IF ParseDateFails(r.date) THEN {InvalidDate(r.date)}
    ELSE LET d == DayOrdinal(r.date)
         IN  IF r.stat_type = "index"
             THEN IF r.market = "ALL" THEN {Raise(400, "index_needs_market")}
                  ELSE IF { x \in market_indices : x.date = d /\ x.market = r.market } = {}
                  THEN {Raise(404, "index_not_found")}
                  \* MarketIndex has no attribute index_value (models.py:117-129)
                  ELSE {Raise(0, "AttributeError")}
             ELSE IF r.market = "ALL"
             THEN { StatResponse(a + b) :
                      a \in StatOrZero(StatOf(d, "KOSPI"), r.stat_type),
                      b \in StatOrZero(StatOf(d, "KOSDAQ"), r.stat_type) }
             ELSE IF StatOf(d, r.market) = {} THEN {Raise(404, "stat_not_found")}
             ELSE { StatResponse(StatField(x, r.stat_type)) : x \in StatOf(d, r.market) }

SortColumn(p, rankType) ==
    IF rankType = "volume" THEN p.volume
    ELSE IF rankType = "close_price" THEN p.close_price
    ELSE p.change_rate

\* ORDER BY on a nullable column: MySQL sorts NULL below every value.
KeyGE(a, b) == IsNull(b) \/ (~IsNull(a) /\ Val(a) >= Val(b))

KeyLE(a, b) == IsNull(a) \/ (~IsNull(b) /\ Val(a) <= Val(b))

\* Branch 3 (lines 231-273): a ranking of one market's stocks.
MarketRanking(r) ==
    IF r.date = NoDate THEN {Raise(0, "TypeError")}        \* strptime(None, ...)
    ELSE IF ParseDateFails(r.date) THEN {InvalidDate(r.date)}
    ELSE IF SqlLimitFails(r.limit) THEN {Raise(0, "DatabaseError")}
    ELSE LET target == IF r.market # "ALL" THEN r.market ELSE "KOSPI"
             rows == { p \in prices :
                         /\ p.date = DayOrdinal(r.date)
                         /\ stocks[p.stock_id].market = target
                         /\ stocks[p.stock_id].is_active = TRUE }
             orders == IF r.direction = "desc"
                       THEN OrderedPerms(rows, LAMBDA a, b :
                              KeyGE(SortColumn(a, r.rank_type), SortColumn(b, r.rank_type)))
                       ELSE OrderedPerms(rows, LAMBDA a, b :
                              KeyLE(SortColumn(a, r.rank_type), SortColumn(b, r.rank_type)))
         IN  { LET top == SqlLimit(o, r.limit)
               IN  \* f"{price.volume:,}" on a NULL volume raises TypeError
                   IF r.rank_type = "volume"
                      /\ \E k \in 1..Len(top) : IsNull(top[k].volume)
                   THEN Raise(0, "TypeError")
                   ELSE [kind |-> "market_ranking", status |-> 200,
                         results |-> [k \in 1..Len(top) |-> top[k].stock_id]]
               : o \in orders }

\* The body of simple_query inside its try block.
SimpleQueryBody(r) ==
    IF r.stock # <<>> /\ r.date # NoDate THEN PriceLookup(r)
    ELSE IF r.stat_type # "" /\ r.date # NoDate THEN MarketStatLookup(r)
    ELSE IF r.rank_type # "" THEN MarketRanking(r)
    ELSE {Raise(400, "bad_parameters")}

\* GET /query/simple
SimpleQuery(r) ==
    /\ Idle
    /\ \E out \in SimpleQueryBody(r) :
        /\ req' = r
        /\ resp' = CatchAll(out)
        /\ UNCHANGED <<store, pool>>

SimpleRequest(stock, date, priceType, statType, rankType, direction, market, limit) ==
    [op |-> "simple_query", stock |-> stock, date |-> date, price_type |-> priceType,
     stat_type |-> statType, rank_type |-> rankType, direction |-> direction,
     market |-> market, limit |-> limit]

(***************************************************************************)
(* filter_query                                                            *)
(***************************************************************************)
\* The checks of lines 327-340; a NULL column fails a bound that is given.
AtLeast(col, bound) == IsNull(bound) \/ (~IsNull(col) /\ Val(col) >= Val(bound))

AtMost(col, bound) == IsNull(bound) \/ (~IsNull(col) /\ Val(col) <= Val(bound))

PassesBounds(p, r) ==
    /\ AtLeast(p.change_rate, r.change_rate_min)
    /\ AtMost(p.change_rate, r.change_rate_max)
    /\ AtLeast(p.close_price, r.price_min)
    /\ AtMost(p.close_price, r.price_max)
    /\ AtLeast(p.volume, r.volume_min)

\* The previous calendar day's row of the same stock (lines 344-348).
PrevRows(p) == { x \in prices : x.stock_id = p.stock_id /\ x.date = p.date - 1 }

\* Lines 350-355 are reached with a previous row whose volume is not 0.
VolumeChangeEvaluated(p, r) ==
    /\ PassesBounds(p, r)
    /\ ~IsNull(r.volume_change_min)
    /\ \E x \in PrevRows(p) : x.volume # Some(0)

\* Arithmetic on a NULL volume raises TypeError.
VolumeChangeRaises(p, r) ==
    /\ VolumeChangeEvaluated(p, r)
    /\ (IsNull(p.volume) \/ \E x \in PrevRows(p) : IsNull(x.volume))

\* ((volume - prev) / prev) * 100 >= volume_change_min
VolumeChangePasses(p, r) ==
    IsNull(r.volume_change_min)
    \/ \E x \in PrevRows(p) :
         /\ x.volume # Some(0)
         /\ RatioGE(Ratio((Val(p.volume) - Val(x.volume)) * 100, Val(x.volume)),
                    <<Val(r.volume_change_min), 1>>)

\* key=lambda x: x["change_rate"] or 0
ChangeRateKey(p) == IF Truthy(p.change_rate) THEN Val(p.change_rate) ELSE 0

FilterQueryBody(r) ==
    IF ParseDateFails(r.date) THEN {InvalidDate(r.date)}
    ELSE LET base == { p \in prices :
                         /\ p.date = DayOrdinal(r.date)
                         /\ stocks[p.stock_id].is_active = TRUE
                         /\ (r.market # "ALL" => stocks[p.stock_id].market = r.market) }
         IN  IF \E p \in base : VolumeChangeRaises(p, r)
             THEN {Raise(0, "TypeError")}
             ELSE LET hit == { Entry(p.stock_id, ChangeRateKey(p)) :
                                 p \in { x \in base :
                                           PassesBounds(x, r) /\ VolumeChangePasses(x, r) } }
                  IN  { [kind |-> "conditional_filter", status |-> 200,
                         results |-> PySlice(o, r.limit)] :
                          o \in OrderedPerms(hit, RsiDescending) }

\* GET /query/filter
FilterQuery(r) ==
    /\ Idle
    /\ \E out \in FilterQueryBody(r) :
        /\ req' = r
        /\ resp' = CatchAll(out)
        /\ UNCHANGED <<store, pool>>

FilterRequest(date, volChangeMin, volMin, rateMin, rateMax, priceMin, priceMax, market, limit) ==
    [op |-> "filter_query", date |-> date, volume_change_min |-> volChangeMin,
     volume_min |-> volMin, change_rate_min |-> rateMin, change_rate_max |-> rateMax,
     price_min |-> priceMin, price_max |-> priceMax, market |-> market, limit |-> limit]

(***************************************************************************)
(* /technical/rsi                                                          *)
(***************************************************************************)
TechnicalRsiBody(r) ==
    IF ~IsCalendarDate(r.date) THEN {StrptimeError(r.date)}
    ELSE IF SqlLimitFails(r.limit) THEN {Raise(0, "DatabaseError")}
    ELSE LET hit == { Entry(t.stock_id, Val(t.rsi)) :
                        t \in { u \in tech :
                                  /\ u.date = DayOrdinal(r.date)
                                  /\ ~IsNull(u.rsi)
                                  /\ Val(u.rsi) >= r.rsi_min
                                  /\ Val(u.rsi) <= r.rsi_max
                                  /\ stocks[u.stock_id].is_active = TRUE
                                  /\ (r.market # "ALL"
                                        => stocks[u.stock_id].market = r.market) } }
         IN  { [kind |-> "technical_rsi", status |-> 200,
                results |-> SqlLimit(o, r.limit)] :
                 o \in OrderedPerms(hit, AnyOrder) }

\* GET /technical/rsi
TechnicalRsi(r) ==
    /\ Idle
    /\ \E out \in TechnicalRsiBody(r) :
        /\ req' = r
        /\ resp' = CatchAll(out)
        /\ UNCHANGED <<store, pool>>

TechnicalRsiRequest(date, market, rsiMin, rsiMax, limit) ==
    [op |-> "technical_rsi", date |-> date, market |-> market, rsi_min |-> rsiMin,
     rsi_max |-> rsiMax, limit |-> limit]

(***************************************************************************)
(* Store contents for the signal specifications.  Each stock's rows are    *)
(* laid out from a profile: `prior` consecutive days of history before     *)
(* RefDate, all of volume `vol` but the oldest, and, when has_cur, a row   *)
(* on RefDate itself.                                                      *)
(***************************************************************************)
MaxPrior == 11

RefDate == <<2024, 3, 2>>

DayBefore == <<2024, 3, 1>>

RefDay == DayOrdinal(RefDate)

PlainStock(i, active) ==
    [stock_id |-> i, symbol |-> SymbolList[i], krx_code |-> Null,
     name |-> IF i = 1 THEN <<"a">> ELSE <<"b">>,
     market |-> IF i = 2 THEN "KOSDAQ" ELSE "KOSPI", is_active |-> active]

PriceRow(i, day, vol, close) ==
    [stock_id |-> i, date |-> day, volume |-> vol, open_price |-> close,
     high_price |-> close, low_price |-> close, close_price |-> close,
     change_rate |-> Some(0)]

PriceRowsOf(i, pf) ==
    { PriceRow(i, RefDay - k, IF k = pf.prior THEN pf.oldest ELSE pf.vol, pf.close) :
        k \in 1..pf.prior }
    \cup (IF pf.has_cur THEN {PriceRow(i, RefDay, pf.cur, pf.close)} ELSE {})

PriceProfile(active, prior, vol, oldest, hasCur, cur, close) ==
    [active |-> active, prior |-> prior, vol |-> vol, oldest |-> oldest,
     has_cur |-> hasCur, cur |-> cur, close |-> close]

VolumeProfiles ==
    { PriceProfile(TRUE, MaxPrior, Some(2), Some(2), TRUE, Some(4), Some(100)),
      PriceProfile(FALSE, MaxPrior, Some(2), Some(2), TRUE, Some(4), Some(100)),
      PriceProfile(TRUE, MaxPrior - 1, Some(2), Some(2), TRUE, Some(3), Some(100)),
      PriceProfile(TRUE, MaxPrior - 2, Some(2), Some(2), TRUE, Some(4), Some(100)),
      PriceProfile(TRUE, MaxPrior, Some(0), Some(0), TRUE, Some(4), Some(100)),
      PriceProfile(TRUE, MaxPrior, Some(2), Null, TRUE, Some(4), Some(100)),
      PriceProfile(TRUE, MaxPrior, Some(2), Some(2), TRUE, Null, Some(100)),
      PriceProfile(TRUE, MaxPrior, Some(2), Some(2), FALSE, Null, Some(100)),
      PriceProfile(TRUE, MaxPrior, Some(2), Some(0), TRUE, Some(2), Some(100)),
      PriceProfile(TRUE, 0, Some(2), Some(2), TRUE, Some(4), Some(100)) }

InitVolume ==
    \E pf \in [StockIds -> VolumeProfiles] :
        /\ stocks = [i \in StockIds |-> PlainStock(i, pf[i].active)]
        /\ prices = UNION { PriceRowsOf(i, pf[i]) : i \in StockIds }
        /\ tech = {}
        /\ market_stats = {}
        /\ market_indices = {}
        /\ req = NoRequest
        /\ resp = NoResponse
        /\ PoolAtRest

VolumeRequests ==
    { SignalRequest(d, VolumeSurge, Null, m, Null, Null, <<>>, NoDate, NoDate, p, l) :
        d \in {RefDate, DayBefore},
        m \in {Null, Some(0), Some(1), Some(2)},
        p \in {MinObservations, MinObservations + 1, 20},
        l \in {-1, 0, 1, 2, 15} }

VolumeSurgeQuery == \E r \in VolumeRequests : SignalQuery(r)

NextVolume == VolumeSurgeQuery \/ Finish

SpecVolume == InitVolume /\ [][NextVolume]_vars

(***************************************************************************)
(* SpecSignal: signal_query over indicator and price rows.  A stock's      *)
(* indicator rows are laid out from a profile: `series` gives <<ma5,       *)
(* ma20>> for the days up to RefDate, and the row of RefDate carries the   *)
(* profile's rsi, ma60 and touch flags.                                    *)
(***************************************************************************)
TechRow(i, day, ma5, ma20, ma60, rsi, up, lo) ==
    [stock_id |-> i, date |-> day, ma5 |-> ma5, ma20 |-> ma20, ma60 |-> ma60,
     rsi |-> rsi, bb_upper_touch |-> up, bb_lower_touch |-> lo]

TechRowsOf(i, tf) ==
    { IF k = Len(tf.series)
      THEN TechRow(i, RefDay, tf.series[k][1], tf.series[k][2], tf.ma60, tf.rsi,
                   tf.up, tf.lo)
      ELSE TechRow(i, RefDay - (Len(tf.series) - k), tf.series[k][1], tf.series[k][2],
                   Null, Null, Null, Null)
      : k \in 1..Len(tf.series) }

TechProfile(series, ma60, rsi, up, lo) ==
    [series |-> series, ma60 |-> ma60, rsi |-> rsi, up |-> up, lo |-> lo]

TechProfiles ==
    { TechProfile(<<>>, Null, Null, Null, Null),
      TechProfile(<< <<Some(95), Some(100)>>, <<Some(110), Some(100)>> >>,
                  Null, Some(75), Some(TRUE), Some(FALSE)),
      TechProfile(<< <<Some(110), Some(100)>>, <<Some(90), Some(100)>> >>,
                  Some(100), Some(25), Some(FALSE), Some(TRUE)),
      TechProfile(<< <<Null, Null>> >>, Null, Null, Null, Some(TRUE)),
      TechProfile(<< <<Some(100), Some(0)>> >>, Some(100), Some(70), Some(TRUE), Some(TRUE)) }

SignalPriceProfiles ==
    { PriceProfile(TRUE, MaxPrior, Some(2), Some(2), TRUE, Some(4), Some(121)),
      PriceProfile(TRUE, MaxPrior, Some(2), Some(2), TRUE, Null, Some(105)),
      PriceProfile(TRUE, 0, Some(2), Some(2), TRUE, Some(1), Null) }

SignalProfiles ==
    [price : SignalPriceProfiles, tech : TechProfiles]
    \cup { [price |-> PriceProfile(FALSE, MaxPrior, Some(2), Some(2), TRUE, Some(4), Some(121)),
            tech |-> TechProfile(<< <<Some(95), Some(100)>>, <<Some(110), Some(100)>> >>,
                                 Null, Some(75), Some(TRUE), Some(FALSE))] }

InitSignal ==
    \E pf \in [StockIds -> SignalProfiles] :
        /\ stocks = [i \in StockIds |-> PlainStock(i, pf[i].price.active)]
        /\ prices = UNION { PriceRowsOf(i, pf[i].price) : i \in StockIds }
        /\ tech = UNION { TechRowsOf(i, pf[i].tech) : i \in StockIds }
        /\ market_stats = {}
        /\ market_indices = {}
        /\ req = NoRequest
        /\ resp = NoResponse
        /\ PoolAtRest

BadDate == <<2024, 2, 30>>

Snapshot(date, type, thr, mult, maPeriod, pct, limit) ==
    SignalRequest(date, type, thr, mult, maPeriod, pct, <<>>, NoDate, NoDate, 20, limit)

SnapshotRequests ==
    { Snapshot(d, t, thr, Null, Null, Null, l) :
        d \in {RefDate, BadDate, NoDate},
        t \in {RsiOverbought, RsiOversold, <<"rsi", "extreme">>},
        thr \in {Null, Some(0), Some(75)},
        l \in {-1, 1, 15} }
    \cup
    { Snapshot(d, t, Null, Null, Null, Null, l) :
        d \in {RefDate, BadDate},
        t \in {BollingerUpper, BollingerLower, <<"bollinger", "middle">>,
               <<"macd">>, <<"golden", "cross">>},
        l \in {-1, 1, 15} }
    \cup
    { Snapshot(d, VolumeSurge, Null, m, Null, Null, l) :
        d \in {RefDate, DayBefore, BadDate},
        m \in {Null, Some(2), Some(3)},
        l \in {1, 15} }
    \cup
    { Snapshot(d, MaBreakout, Null, Null, mp, pct, l) :
        d \in {RefDate, BadDate},
        mp \in {Null, Some(5), Some(10), Some(60)},
        pct \in {Null, Some(10), Some(30)},
        l \in {1, 15} }

CrossCountRequests ==
    { SignalRequest(NoDate, t, Null, Null, Null, Null, q, a, b, 20, 15) :
        t \in {GoldenCrossCount, DeadCrossCount, <<"cross", "count">>, RsiOverbought},
        q \in {<<>>, <<"a">>, <<"b">>, <<"b", "b">>},
        a \in {NoDate, DayBefore, BadDate},
        b \in {RefDate, BadDate} }
    \cup
    { SignalRequest(RefDate, t, Null, Null, Null, Null, <<"a">>, DayBefore, RefDate, 20, 15) :
        t \in {GoldenCrossCount, RsiOverbought, VolumeSurge} }

SnapshotQuery == \E r \in SnapshotRequests : SignalQuery(r)

CrossCountQuery == \E r \in CrossCountRequests : SignalQuery(r)

NextSignal == SnapshotQuery \/ CrossCountQuery \/ Finish

SpecSignal == InitSignal /\ [][NextSignal]_vars

(***************************************************************************)
(* SpecQueries: the four endpoints side by side, over a small store.       *)
(***************************************************************************)
StatRow(day, market, rising) ==
    [date |-> day, market |-> market, rising_stocks |-> rising, falling_stocks |-> 1,
     total_stocks |-> rising + 1, total_value |-> 10]

IndexRow(day, market) == [date |-> day, market |-> market, close_index |-> Some(2500)]

QueryProfiles ==
    { [price |-> PriceProfile(TRUE, 1, Some(2), Some(2), TRUE, Some(4), Some(100)),
       tech |-> TechProfile(<< <<Some(110), Some(100)>> >>, Null, Some(75), Some(TRUE),
                            Some(FALSE))],
      [price |-> PriceProfile(TRUE, 1, Some(2), Some(2), TRUE, Some(4), Some(100)),
       tech |-> TechProfile(<<>>, Null, Null, Null, Null)],
      [price |-> PriceProfile(TRUE, 1, Some(2), Null, TRUE, Null, Some(100)),
       tech |-> TechProfile(<<>>, Null, Null, Null, Null)],
      [price |-> PriceProfile(FALSE, 1, Some(2), Some(2), TRUE, Some(4), Some(100)),
       tech |-> TechProfile(<< <<Some(110), Some(100)>> >>, Null, Some(75), Some(TRUE),
                            Some(FALSE))],
      [price |-> PriceProfile(TRUE, 1, Some(0), Some(0), FALSE, Null, Null),
       tech |-> TechProfile(<<>>, Null, Null, Null, Null)] }

InitQueries ==
    \E pf \in [StockIds -> QueryProfiles] :
        /\ stocks = [i \in StockIds |-> PlainStock(i, pf[i].price.active)]
        /\ prices = UNION { PriceRowsOf(i, pf[i].price) : i \in StockIds }
        /\ tech = UNION { TechRowsOf(i, pf[i].tech) : i \in StockIds }
        /\ market_stats \in { {}, {StatRow(RefDay, "KOSPI", 3), StatRow(RefDay, "KOSDAQ", 2)} }
        /\ market_indices \in { {}, {IndexRow(RefDay, "KOSPI")} }
        /\ req = NoRequest
        /\ resp = NoResponse
        /\ PoolAtRest

SimpleRequests ==
    { SimpleRequest(q, d, pt, "", "", "desc", "KOSPI", 5) :
        q \in {<<"a">>, <<"b", "b">>, <<"%">>},
        d \in {RefDate, DayBefore, BadDate},
        pt \in {"close", "change_rate"} }
    \cup
    { SimpleRequest(<<>>, d, "close", st, "", "desc", m, 5) :
        d \in {RefDate, DayBefore, BadDate},
        st \in {"rising_count", "index"},
        m \in {"KOSPI", "ALL"} }
    \cup
    { SimpleRequest(<<>>, d, "close", "", rt, dir, m, l) :
        d \in {NoDate, RefDate, BadDate},
        rt \in {"volume", "change_rate"},
        dir \in {"desc", "asc"},
        m \in {"KOSPI", "ALL"},
        l \in {-1, 5} }
    \cup
    { SimpleRequest(<<>>, d, "close", "", "", "desc", "KOSPI", 5) : d \in {NoDate, RefDate} }

FilterRequests ==
    { FilterRequest(d, vc, vm, Null, Some(5), pmin, Null, m, l) :
        d \in {RefDate, DayBefore, BadDate},
        vc \in {Null, Some(50)},
        vm \in {Null, Some(3)},
        pmin \in {Null, Some(100)},
        m \in {"ALL", "KOSDAQ"},
        l \in {-1, 50} }

TechnicalRsiRequests ==
    { TechnicalRsiRequest(d, m, lo, 100, l) :
        d \in {RefDate, BadDate, <<2023, 2, 29>>},
        m \in {"ALL", "KOSPI"},
        lo \in {0, 80},
        l \in {-1, 50} }

SimpleQueryCall == \E r \in SimpleRequests : SimpleQuery(r)

FilterQueryCall == \E r \in FilterRequests : FilterQuery(r)

TechnicalRsiCall == \E r \in TechnicalRsiRequests : TechnicalRsi(r)

SignalQueryCall ==
    \E r \in CrossCountRequests
             \cup { Snapshot(d, t, Null, Null, Null, Null, 15) :
                      d \in {RefDate, BadDate, NoDate},
                      t \in {RsiOverbought, VolumeSurge, BollingerLower, MaBreakout,
                             <<"macd">>} } :
        SignalQuery(r)

NextQueries ==
    SimpleQueryCall \/ FilterQueryCall \/ TechnicalRsiCall \/ SignalQueryCall \/ Finish

SpecQueries == InitQueries /\ [][NextQueries]_vars

(***************************************************************************)
(* Properties of the resolver (SpecResolver).                              *)
(***************************************************************************)
ResolverCalled == req.op = "find_stock_by_name"

\* The stocks the call may return at all: active, and of the requested
\* market when the filter is not ALL.
InScope(i) ==
    /\ stocks[i].is_active
    /\ (req.market # "ALL" => stocks[i].market = req.market)

\* C1: when some active stock in the requested market has a display name
\* exactly equal to the query, the resolver returns a stock whose name equals
\* the query, never one that matches by symbol, code or containment only.
C1_ExactNameWins ==
    (ResolverCalled /\ \E i \in StockIds : InScope(i) /\ stocks[i].name = req.stock)
        => (resp.stock_id # NoStock /\ stocks[resp.stock_id].name = req.stock)

\* An exact-name stock and another in-scope stock that matches the query by
\* symbol or code only: the exact-name stock is returned.
C1_Witness ==
    /\ ResolverCalled
    /\ resp.stock_id # NoStock
    /\ stocks[resp.stock_id].name = req.stock
    /\ \E j \in StockIds :
        /\ InScope(j)
        /\ stocks[j].name # req.stock
        /\ (stocks[j].symbol = req.stock \/ stocks[j].krx_code = req.stock)

\* The candidates of the four stages, from the store.
ByName == { i \in StockIds : InScope(i) /\ stocks[i].name = req.stock }

BySymbol == { i \in StockIds : InScope(i) /\ stocks[i].symbol = req.stock }

ByCode ==
    { i \in StockIds :
        InScope(i) /\ stocks[i].krx_code # Null /\ stocks[i].krx_code = req.stock }

ByContainment ==
    { i \in StockIds :
        /\ InScope(i)
        /\ \/ ColumnContains(stocks[i].name, req.stock)
           \/ ColumnContains(stocks[i].symbol, req.stock)
           \/ ColumnContains(stocks[i].krx_code, req.stock) }

\* C2: the stages are tried in the order name, symbol, KRX code, containment
\* and the result is a hit of the first stage that has one; a later stage
\* decides only when every earlier stage is empty, and the result is None
\* when all four are.
C2_FirstStageWins ==
    ResolverCalled =>
        /\ ByName # {} => resp.stock_id \in ByName
        /\ (ByName = {} /\ BySymbol # {}) => resp.stock_id \in BySymbol
        /\ (ByName = {} /\ BySymbol = {} /\ ByCode # {}) => resp.stock_id \in ByCode
        /\ (ByName = {} /\ BySymbol = {} /\ ByCode = {} /\ ByContainment # {})
              => resp.stock_id \in ByContainment
        /\ (ByName = {} /\ BySymbol = {} /\ ByCode = {} /\ ByContainment = {})
              => resp.stock_id = NoStock

\* No exact name; one stock matches by symbol, a different one by KRX code,
\* and the symbol match is returned.
C2_Witness ==
    /\ ResolverCalled
    /\ ByName = {}
    /\ BySymbol # {}
    /\ ByCode \ BySymbol # {}
    /\ resp.stock_id \in BySymbol

\* Literal containment of the query in one of the three columns.
ContainsLiterally(i, q) ==
    \/ Contains(stocks[i].name, q)
    \/ Contains(stocks[i].symbol, q)
    \/ (stocks[i].krx_code # Null /\ Contains(stocks[i].krx_code, q))

\* C3: when no active stock's name, symbol or KRX code contains the query
\* as a substring, the resolver returns None.
C3_NoSubstringIsNotFound ==
    (ResolverCalled
        /\ \A i \in StockIds : stocks[i].is_active => ~ContainsLiterally(i, req.stock))
        => resp.stock_id = NoStock

\* C4: a returned stock is active and, under a market filter other than ALL,
\* of that market.
C4_ResultActiveInMarket ==
    (ResolverCalled /\ resp.stock_id # NoStock)
        => /\ stocks[resp.stock_id].is_active = TRUE
           /\ (req.market # "ALL" => stocks[resp.stock_id].market = req.market)

\* An inactive stock, or one of another market, carries the exact name asked
\* for, and the call returns a different stock, found at a later stage.
C4_Witness ==
    /\ ResolverCalled
    /\ resp.stock_id # NoStock
    /\ stocks[resp.stock_id].name # req.stock
    /\ \E j \in StockIds : stocks[j].name = req.stock /\ ~InScope(j)

(***************************************************************************)
(* Properties of the error responses (SpecQueries, SpecSignal).            *)
(***************************************************************************)
\* simple_query's price lookup: a stock and a date are given.
IsPriceLookup == req.op = "simple_query" /\ req.stock # <<>> /\ req.date # NoDate

\* signal_query's cross count with its three parameters given.
IsCrossCountLookup ==
    /\ req.op = "signal_query"
    /\ IsCrossCountRequest(req)
    /\ req.stock # <<>>
    /\ req.start_date # NoDate
    /\ req.end_date # NoDate

\* The request names a stock that is not found, or one that is found but
\* has no price row on the (valid) date asked for.
NothingToReport ==
    \/ /\ IsPriceLookup
       /\ IsCalendarDate(req.date)
       /\ \/ InlineLookup(req.stock) = {NoStock}
          \/ \A s \in InlineLookup(req.stock) :
                s # NoStock /\ PriceOf(s, DayOrdinal(req.date)) = {}
    \/ /\ IsCrossCountLookup
       /\ IsCalendarDate(req.start_date)
       /\ IsCalendarDate(req.end_date)
       /\ FindStockByName(req.stock, "ALL") = {NoStock}

\* C5: a price lookup or cross count whose stock is not found, or a price
\* lookup whose stock has no price row on the requested date, ends with a
\* 404 response and with no other failure.
C5_NotFoundIs404 == NothingToReport => resp.status = 404

\* The request reaches the parsing of a date parameter that is given and is
\* not a day of the calendar.
ParsesInvalidDate ==
    \/ /\ req.op = "simple_query"
       /\ req.date # NoDate
       /\ ~IsCalendarDate(req.date)
       /\ (req.stock # <<>> \/ req.stat_type # "" \/ req.rank_type # "")
    \/ /\ req.op \in {"filter_query", "technical_rsi"}
       /\ ~IsCalendarDate(req.date)
    \/ /\ IsCrossCountLookup
       /\ FindStockByName(req.stock, "ALL") # {NoStock}
       /\ (~IsCalendarDate(req.start_date) \/ ~IsCalendarDate(req.end_date))
    \/ /\ req.op = "signal_query"
       /\ ~IsCrossCountRequest(req)
       /\ req.date # NoDate
       /\ ~IsCalendarDate(req.date)

\* C6: on every endpoint that parses a date, a date, start_date or end_date
\* that is not a valid YYYY-MM-DD date ends the request with a 400 response.
C6_InvalidDateIs400 == ParsesInvalidDate => resp.status = 400

\* A snapshot request of signal_query with a valid date.
IsSnapshot ==
    /\ req.op = "signal_query"
    /\ ~IsCrossCountRequest(req)
    /\ req.date # NoDate
    /\ IsCalendarDate(req.date)

SupportedSignals ==
    {RsiOverbought, RsiOversold, VolumeSurge, BollingerUpper, BollingerLower, MaBreakout}

\* C7: signal_query with a valid date and a signal_type outside the six
\* supported ones (and not a cross count) ends with a 400 response, also
\* for a token that only starts with "rsi_" or "bollinger_".
C7_UnsupportedSignalIs400 ==
    (IsSnapshot /\ req.signal_type \notin SupportedSignals) => resp.status = 400

(***************************************************************************)
(* Properties of the volume surge (SpecSignal, SpecVolume), stated from    *)
(* the rows of the store.                                                  *)
(***************************************************************************)
QueryDay == DayOrdinal(req.date)

\* The stock's rows of the averaging window: dated before the query date
\* and no more than `period` days back.
RowsBefore(i) ==
    { p \in prices :
        p.stock_id = i /\ p.date < QueryDay /\ QueryDay - p.date <= req.period }

RowsOn(i) == { p \in prices : p.stock_id = i /\ p.date = QueryDay }

\* The volumes of a set of rows added up, one distinct volume at a time.
RECURSIVE VolumeTotal(_, _)
VolumeTotal(rows, vols) ==
    IF vols = {} THEN 0
    ELSE LET v == CHOOSE x \in vols : TRUE
         IN  v * Cardinality({ p \in rows : p.volume = Some(v) })
               + VolumeTotal(rows, vols \ {v})

WindowTotal(i) ==
    LET w == RowsBefore(i)
    IN  VolumeTotal(w, { Val(p.volume) : p \in w })

\* multiplier = volume_multiplier or 1.0
Bar == IF req.volume_multiplier \in {Null, Some(0)} THEN 1 ELSE Val(req.volume_multiplier)

\* current / (total / n) * 100 >= bar * 100 for a current volume v over a
\* window of n rows, without the division.
ReachesBar(v, n, total) == v * n >= Bar * total

\* A window of rows with known volumes and a positive mean, and a row on
\* the query date whose volume reaches the bar over it.
SurgesOver(i, w) ==
    /\ \A p \in w : p.volume # Null
    /\ LET total == WindowTotal(i)
       IN  /\ total > 0
           /\ \E c \in RowsOn(i) :
                c.volume # Null /\ ReachesBar(Val(c.volume), Cardinality(w), total)

\* An active stock with a row on the query date, at least ten rows in the
\* window whose mean volume is positive, and a ratio that reaches the bar.
Surging(i) ==
    /\ stocks[i].is_active = TRUE
    /\ LET w == RowsBefore(i)
       IN  Cardinality(w) >= 10 /\ SurgesOver(i, w)

SurgingStocks == { i \in StockIds : Surging(i) }

\* No stock satisfies the condition of the snapshot signal asked for.
NoStockSatisfies ==
    LET rows == { t \in tech : t.date = QueryDay /\ stocks[t.stock_id].is_active = TRUE }
    IN  IF req.signal_type = RsiOverbought
        THEN \A t \in rows :
               t.rsi = Null
               \/ Val(t.rsi) < (IF Truthy(req.threshold) THEN Val(req.threshold) ELSE 70)
        ELSE IF req.signal_type = RsiOversold
        THEN \A t \in rows :
               t.rsi = Null
               \/ Val(t.rsi) > (IF Truthy(req.threshold) THEN Val(req.threshold) ELSE 30)
        ELSE IF req.signal_type = VolumeSurge THEN SurgingStocks = {}
        ELSE IF req.signal_type = BollingerUpper
        THEN \A t \in rows : t.bb_upper_touch # Some(TRUE)
        ELSE IF req.signal_type = BollingerLower
        THEN \A t \in rows : t.bb_lower_touch # Some(TRUE)
        ELSE \A t \in rows : \A p \in RowsOn(t.stock_id) :
               ~BreakoutQualifies(t, p,
                    IF Truthy(req.ma_period) THEN Val(req.ma_period) ELSE 20,
                    IF Truthy(req.breakout_percent) THEN Val(req.breakout_percent) ELSE 3)

\* C8: a snapshot signal request on a valid date for which no stock
\* satisfies the condition returns a success response with an empty results
\* list, never a not-found or an error.
C8_NoMatchIsEmptySuccess ==
    (IsSnapshot /\ req.signal_type \in SupportedSignals /\ req.limit >= 0
        /\ NoStockSatisfies)
        => (resp.status = 200 /\ resp.kind = "signal_detection" /\ resp.results = <<>>)

\* A volume_surge request that was answered with a result list.
SurgeAnswered ==
    /\ IsSnapshot
    /\ req.signal_type = VolumeSurge
    /\ resp.kind = "signal_detection"

Listed == { resp.results[k].stock_id : k \in 1..Len(resp.results) }

\* C9: the volume_surge result never contains a stock that has fewer than
\* 10 daily-price rows dated before the query date inside the averaging
\* window, whatever the store, date, period and multiplier.
C9_ListedHaveTenPriorRows ==
    SurgeAnswered => \A i \in Listed : Cardinality(RowsBefore(i)) >= 10

\* A stock is listed while another active stock with a row on the query
\* date, a positive window mean and a ratio over the bar is left out for
\* having between one and nine rows in the window.
C9_Witness ==
    /\ SurgeAnswered
    /\ Listed # {}
    /\ \E j \in StockIds \ Listed :
        /\ stocks[j].is_active = TRUE
        /\ Cardinality(RowsBefore(j)) \in 1..9
        /\ SurgesOver(j, RowsBefore(j))

\* current volume / mean * 100 of a qualifying stock, as an exact ratio.
RatioOf(i) ==
    LET c == CHOOSE x \in RowsOn(i) : x.volume # Null
    IN  <<Val(c.volume) * 100 * Cardinality(RowsBefore(i)), WindowTotal(i)>>

\* The entry reports the ratio of its stock.
ReportsRatio(e) ==
    LET r == RatioOf(e.stock_id)
    IN  e.metric[1] * r[2] = r[1] * e.metric[2]

\* C10: volume_surge lists an active stock with a row on the query date if
\* and only if it has at least 10 prior rows in the window, their mean
\* volume is positive and current volume / mean * 100 >= multiplier * 100;
\* the ratio reported for a listed stock is current volume / mean * 100.
C10_ListedIffSurging ==
    (SurgeAnswered /\ req.limit >= 1) =>
        /\ Listed = SurgingStocks
        /\ \A k \in 1..Len(resp.results) : ReportsRatio(resp.results[k])

\* The length of results[:limit] over n qualifying stocks.
CutTo(n, limit) ==
    IF limit >= 0 THEN (IF limit < n THEN limit ELSE n)
    ELSE (IF n + limit > 0 THEN n + limit ELSE 0)

\* C10, amended: every listed stock qualifies and reports current volume /
\* mean * 100; the list holds each stock once, in descending order of the
\* ratio, and is the qualifying stocks cut to `limit` entries, so that no
\* stock left out has a higher ratio than a listed one and every qualifying
\* stock is listed when there are no more than `limit` of them.
C10_ListedAreTopSurging ==
    SurgeAnswered =>
        LET res == resp.results
            surging == SurgingStocks
        IN  /\ Listed \subseteq surging
            /\ \A k \in 1..Len(res) : ReportsRatio(res[k])
            /\ Cardinality(Listed) = Len(res)
            /\ Len(res) = CutTo(Cardinality(surging), req.limit)
            /\ \A k \in 1..(Len(res) - 1) : RatioGE(res[k].metric, res[k + 1].metric)
            /\ \A j \in surging \ Listed :
                 \A k \in 1..Len(res) : RatioGE(res[k].metric, RatioOf(j))

\* Two stocks qualify and the limit keeps only the one with the higher
\* ratio.
C10_Witness ==
    /\ SurgeAnswered
    /\ req.limit = 1
    /\ Len(resp.results) = 1
    /\ \E j \in SurgingStocks \ Listed : ~RatioGE(RatioOf(j), resp.results[1].metric)

(***************************************************************************)
(* SpecCalendar: volume_surge over price histories with days that have no  *)
(* row (weekends, holidays).  A history is the set of its rows' distances  *)
(* in days before RefDate, with the volume of the oldest row apart.        *)
(***************************************************************************)
History(offsets, vol, oldest, cur) ==
    [offsets |-> offsets, vol |-> vol, oldest |-> oldest, cur |-> cur]

HistoryRowsOf(i, h) ==
    { PriceRow(i, RefDay - k,
               IF \A j \in h.offsets : j <= k THEN h.oldest ELSE h.vol, Some(100)) :
        k \in h.offsets }
    \cup {PriceRow(i, RefDay, h.cur, Some(100))}

Histories ==
    { History(1..MaxPrior, Some(2), Some(2), Some(4)),
      History((1..5) \cup (8..(MaxPrior + 1)), Some(2), Some(2), Some(4)),
      History((1..(MaxPrior - 1)) \cup {MaxPrior + 2}, Some(2), Some(24), Some(4)),
      History((1..(MaxPrior - 1)) \cup {MaxPrior + 2}, Some(2), Some(2), Some(3)),
      History(1..(MaxPrior - 2), Some(2), Some(2), Some(4)) }

InitCalendar ==
    \E h \in [StockIds -> Histories] :
        /\ stocks = [i \in StockIds |-> PlainStock(i, TRUE)]
        /\ prices = UNION { HistoryRowsOf(i, h[i]) : i \in StockIds }
        /\ tech = {}
        /\ market_stats = {}
        /\ market_indices = {}
        /\ req = NoRequest
        /\ resp = NoResponse
        /\ PoolAtRest

CalendarRequests ==
    { SignalRequest(d, VolumeSurge, Null, m, Null, Null, <<>>, NoDate, NoDate, p, 15) :
        d \in {RefDate, DayBefore},
        m \in {Null, Some(2)},
        p \in {MinObservations, MinObservations + 1, MinObservations + 3, 20} }

CalendarQuery == \E r \in CalendarRequests : SignalQuery(r)

NextCalendar == CalendarQuery \/ Finish

SpecCalendar == InitCalendar /\ [][NextCalendar]_vars

(***************************************************************************)
(* Properties of the averaging window (SpecCalendar).                      *)
(***************************************************************************)
\* The stock's rows dated strictly before the query date.
EarlierRows(i) == { p \in prices : p.stock_id = i /\ p.date < QueryDay }

\* Its N most recent trading-day rows before the query date, N = period:
\* the earlier rows with fewer than N earlier rows after them.
RecentRows(i) ==
    { p \in EarlierRows(i) :
        Cardinality({ q \in EarlierRows(i) : q.date > p.date }) < req.period }

RecentTotal(i) ==
    LET w == RecentRows(i)
    IN  VolumeTotal(w, { Val(p.volume) : p \in w })

\* The entry reports current volume / (mean of the recent rows) * 100.
ReportsRecentRatio(e) ==
    \E c \in RowsOn(e.stock_id) :
        e.metric[1] * RecentTotal(e.stock_id)
            = Val(c.volume) * 100 * Cardinality(RecentRows(e.stock_id)) * e.metric[2]

\* C11: the mean used by volume_surge for a stock is taken over its N most
\* recent trading-day rows strictly before the query date (N = period),
\* whatever days without rows lie between them: a listed stock's ratio is
\* its current volume over that mean, and a stock with at least 10 such
\* rows whose ratio reaches the bar is listed.
C11_MeanOverRecentTradingDays ==
    SurgeAnswered =>
        /\ \A k \in 1..Len(resp.results) : ReportsRecentRatio(resp.results[k])
        /\ \A i \in StockIds :
             (/\ stocks[i].is_active = TRUE
              /\ Cardinality(RecentRows(i)) >= 10
              /\ RecentTotal(i) > 0
              /\ \E c \in RowsOn(i) :
                   ReachesBar(Val(c.volume), Cardinality(RecentRows(i)), RecentTotal(i))
              /\ Cardinality(StockIds) <= req.limit)
                => i \in Listed

(***************************************************************************)
(* SpecCross: cross counts over one stock's indicator series.  Stock 1     *)
(* carries a row on each of the MaxSeries days up to RefDate; a row's      *)
(* averages are drawn from CrossPoints.                                    *)
(***************************************************************************)
MaxSeries == 4

CrossPoints ==
    { <<Some(90), Some(100)>>, <<Some(100), Some(100)>>, <<Some(110), Some(100)>>,
      <<Null, Some(100)>>, <<Some(110), Null>> }

InitCross ==
    \E series \in [1..MaxSeries -> CrossPoints] :
        /\ stocks = [i \in StockIds |-> PlainStock(i, TRUE)]
        /\ prices = {}
        /\ tech = TechRowsOf(1, TechProfile(series, Null, Null, Null, Null))
        /\ market_stats = {}
        /\ market_indices = {}
        /\ req = NoRequest
        /\ resp = NoResponse
        /\ PoolAtRest

CrossRequests ==
    { SignalRequest(NoDate, t, Null, Null, Null, Null, q, a, b, 20, 15) :
        t \in {GoldenCrossCount, DeadCrossCount, <<"cross", "count">>},
        q \in {<<"a">>, <<"b", "b">>},
        a \in {<<2024, 2, 1>>, <<2024, 2, 29>>, RefDate},
        b \in {DayBefore, RefDate} }

CrossQuery == \E r \in CrossRequests : SignalQuery(r)

NextCross == CrossQuery \/ Finish

SpecCross == InitCross /\ [][NextCross]_vars

(***************************************************************************)
(* Properties of the cross count (SpecCross).                              *)
(***************************************************************************)
\* A cross-count request with valid dates whose stock resolves.
CrossAnswerable ==
    /\ IsCrossCountLookup
    /\ IsCalendarDate(req.start_date)
    /\ IsCalendarDate(req.end_date)
    /\ FindStockByName(req.stock, "ALL") # {NoStock}

CrossAnswered == CrossAnswerable /\ resp.kind = "cross_count"

\* The rows of a resolved stock that lie in the range.
RowsInRange ==
    { t \in tech :
        /\ t.stock_id \in FindStockByName(req.stock, "ALL")
        /\ DayOrdinal(req.start_date) <= t.date
        /\ t.date <= DayOrdinal(req.end_date) }

\* Those with both averages present.
Present == { t \in RowsInRange : t.ma5 # Null /\ t.ma20 # Null }

Between(a, b, rows) == { c \in rows : a.date < c.date /\ c.date < b.date }

\* Pairs of present rows with no present row between them.
AdjacentPairs ==
    { pair \in Present \X Present :
        pair[1].date < pair[2].date /\ Between(pair[1], pair[2], Present) = {} }

CrossesUp(pair) ==
    Val(pair[1].ma5) <= Val(pair[1].ma20) /\ Val(pair[2].ma5) > Val(pair[2].ma20)

CrossesDown(pair) ==
    Val(pair[1].ma5) >= Val(pair[1].ma20) /\ Val(pair[2].ma5) < Val(pair[2].ma20)

\* C12: golden_cross_count is the number of adjacent pairs, in ascending
\* date order, with MA5 <= MA20 on the earlier row and MA5 > MA20 on the
\* later one, and dead_cross_count the number with MA5 >= MA20 on the
\* earlier and MA5 < MA20 on the later row.
C12_CountsAreAdjacentCrosses ==
    CrossAnswered =>
        /\ resp.golden_cross_count = Cardinality({ x \in AdjacentPairs : CrossesUp(x) })
        /\ resp.dead_cross_count = Cardinality({ x \in AdjacentPairs : CrossesDown(x) })

\* A series that crosses above exactly twice and below exactly once, one
\* of the upward crosses starting from MA5 = MA20; the counts are 2 and 1.
C12_Witness ==
    /\ CrossAnswered
    /\ resp.golden_cross_count = 2
    /\ resp.dead_cross_count = 1
    /\ \E x \in AdjacentPairs : CrossesUp(x) /\ x[1].ma5 = x[1].ma20

\* Adjacent pairs that have a row without an average between them.
GapPairs == { x \in AdjacentPairs : Between(x[1], x[2], RowsInRange) # {} }

\* C13: rows whose MA5 or MA20 is null are removed before the scan: they
\* are never counted as a cross, and two present rows separated only by
\* null rows are compared as an adjacent pair, so that a cross spanning a
\* null gap is counted.
C13_NullRowsAreSkipped ==
    CrossAnswered =>
        /\ resp.golden_cross_count + resp.dead_cross_count <= Cardinality(AdjacentPairs)
        /\ resp.golden_cross_count >= Cardinality({ x \in GapPairs : CrossesUp(x) })
        /\ resp.dead_cross_count >= Cardinality({ x \in GapPairs : CrossesDown(x) })

\* The only upward cross of the range spans a null row, and it is counted.
C13_Witness ==
    /\ CrossAnswered
    /\ resp.golden_cross_count = 1
    /\ \A x \in AdjacentPairs : CrossesUp(x) => x \in GapPairs

\* C14: with fewer than two rows that have both averages in the range, zero
\* included, the cross-count request succeeds with both counts 0.
C14_TooFewRowsIsZero ==
    (CrossAnswerable /\ Cardinality(Present) < 2)
        => /\ resp.status = 200
           /\ resp.kind = "cross_count"
           /\ resp.golden_cross_count = 0
           /\ resp.dead_cross_count = 0

\* The range holds several rows of the stock but only one with both
\* averages; the answer is a success with zero counts.
C14_Witness ==
    /\ CrossAnswered
    /\ Cardinality(Present) = 1
    /\ Cardinality(RowsInRange) >= 2
    /\ resp.golden_cross_count = 0
    /\ resp.dead_cross_count = 0

(***************************************************************************)
(* Properties of the RSI signals (SpecSignal).                             *)
(***************************************************************************)
RsiAnswered ==
    /\ IsSnapshot
    /\ req.signal_type \in {RsiOverbought, RsiOversold}
    /\ resp.kind = "signal_detection"

\* The threshold T of the request: the caller's value, or 70 / 30 when the
\* caller gave none.
RequestedThreshold ==
    IF req.threshold # Null THEN Val(req.threshold)
    ELSE IF req.signal_type = RsiOverbought THEN 70 ELSE 30

\* The rsi values of active stocks on the query date that pass threshold t.
RsiPassing(t) ==
    { u \in tech :
        /\ u.date = QueryDay
        /\ stocks[u.stock_id].is_active = TRUE
        /\ u.rsi # Null
        /\ IF req.signal_type = RsiOverbought THEN Val(u.rsi) >= t ELSE Val(u.rsi) <= t }

\* a ranks no later than b in the order of the signal.
RsiRanks(a, b) == IF req.signal_type = RsiOverbought THEN a >= b ELSE a <= b

\* The list is made of rows passing t, in rank order, and is the first
\* `limit` of them.
RsiListIsTopOf(t) ==
    LET res == resp.results
        passing == RsiPassing(t)
    IN  /\ \A k \in 1..Len(res) :
             \E u \in passing : u.stock_id = res[k].stock_id /\ Val(u.rsi) = res[k].metric
        /\ \A k \in 1..(Len(res) - 1) : RsiRanks(res[k].metric, res[k + 1].metric)
        /\ Cardinality(Listed) = Len(res)
        /\ Len(res) = (IF req.limit < Cardinality(passing) THEN req.limit
                       ELSE Cardinality(passing))
        /\ \A u \in passing :
             u.stock_id \notin Listed
                => \A k \in 1..Len(res) : RsiRanks(res[k].metric, Val(u.rsi))

\* C15: rsi_overbought with threshold T returns only active stocks whose
\* row on the query date has a non-null rsi >= T, in non-increasing rsi
\* order; rsi_oversold only rows with rsi <= T in non-decreasing order;
\* with a limit the list is the first `limit` rows of that order.
C15_RsiListIsFilteredAndSorted == RsiAnswered => RsiListIsTopOf(RequestedThreshold)

(***************************************************************************)
(* Properties of the defaults (SpecSignal).                                *)
(***************************************************************************)
\* The caller's value, or the default d when the caller gave none.
Requested(param, d) == IF param # Null THEN Val(param) ELSE d

BreakoutAnswered ==
    /\ IsSnapshot
    /\ req.signal_type = MaBreakout
    /\ resp.kind = "signal_detection"

\* The list was not cut by the limit.
Uncut == Len(resp.results) < req.limit

\* C16: a default applies only when the caller supplied no value: the RSI
\* threshold is 70 / 30, volume_multiplier 1.0 and breakout_percent 3.0
\* exactly when absent, and every supplied value, 0 included, is the value
\* used in the comparison.
C16_DefaultOnlyWhenAbsent ==
    /\ RsiAnswered =>
         /\ resp.threshold = Some(RequestedThreshold)
         /\ \A k \in 1..Len(resp.results) :
              RsiRanks(resp.results[k].metric, RequestedThreshold)
         /\ Uncut => \A u \in RsiPassing(RequestedThreshold) : u.stock_id \in Listed
    /\ SurgeAnswered =>
         /\ \A k \in 1..Len(resp.results) :
              RatioGE(resp.results[k].metric,
                      <<Requested(req.volume_multiplier, 1) * 100, 1>>)
         /\ Uncut =>
              \A i \in StockIds :
                 (/\ stocks[i].is_active = TRUE
                  /\ Cardinality(RowsBefore(i)) >= 10
                  /\ WindowTotal(i) > 0
                  /\ \E c \in RowsOn(i) :
                       Val(c.volume) * Cardinality(RowsBefore(i))
                          >= Requested(req.volume_multiplier, 1) * WindowTotal(i))
                    => i \in Listed
    /\ BreakoutAnswered =>
         /\ \A k \in 1..Len(resp.results) :
              RatioGE(resp.results[k].metric, <<Requested(req.breakout_percent, 3), 1>>)
         /\ Uncut =>
              \A t \in tech : \A p \in RowsOn(t.stock_id) :
                 (/\ t.date = QueryDay
                  /\ stocks[t.stock_id].is_active = TRUE
                  /\ BreakoutQualifies(t, p, Requested(req.ma_period, 20),
                                       Requested(req.breakout_percent, 3)))
                    => t.stock_id \in Listed

(***************************************************************************)
(* SpecBreakout: ma_breakout over one price row and one indicator row per  *)
(* stock on RefDate.                                                       *)
(***************************************************************************)
BreakoutProfile(active, close, ma5, ma20, ma60) ==
    [price |-> PriceProfile(active, 0, Some(2), Some(2), TRUE, Some(2), close),
     tech |-> TechProfile(<< <<ma5, ma20>> >>, ma60, Null, Null, Null)]

BreakoutProfiles ==
    { BreakoutProfile(TRUE, Some(121), Some(110), Some(100), Null),
      BreakoutProfile(TRUE, Some(105), Some(100), Some(100), Some(100)),
      BreakoutProfile(TRUE, Some(110), Some(100), Some(100), Some(50)),
      BreakoutProfile(TRUE, Some(0), Some(100), Some(100), Some(100)),
      BreakoutProfile(TRUE, Null, Some(100), Some(100), Some(100)),
      BreakoutProfile(TRUE, Some(121), Null, Null, Null),
      BreakoutProfile(FALSE, Some(121), Some(110), Some(100), Null) }

InitBreakout ==
    \E pf \in [StockIds -> BreakoutProfiles] :
        /\ stocks = [i \in StockIds |-> PlainStock(i, pf[i].price.active)]
        /\ prices = UNION { PriceRowsOf(i, pf[i].price) : i \in StockIds }
        /\ tech = UNION { TechRowsOf(i, pf[i].tech) : i \in StockIds }
        /\ market_stats = {}
        /\ market_indices = {}
        /\ req = NoRequest
        /\ resp = NoResponse
        /\ PoolAtRest

BreakoutRequests ==
    { Snapshot(d, MaBreakout, Null, Null, mp, pct, l) :
        d \in {RefDate, DayBefore},
        mp \in {Null, Some(0), Some(5), Some(10), Some(20), Some(60)},
        pct \in {Null, Some(0), Some(10), Some(-100)},
        l \in {-1, 1, 15} }

BreakoutQuery == \E r \in BreakoutRequests : SignalQuery(r)

NextBreakout == BreakoutQuery \/ Finish

SpecBreakout == InitBreakout /\ [][NextBreakout]_vars

(***************************************************************************)
(* Properties of ma_breakout (SpecBreakout).                               *)
(***************************************************************************)
\* The stock's p-day average on the query date, Null when it has no row or
\* p is not 5, 20 or 60.
AverageOf(i, period) ==
    LET rows == { t \in tech : t.stock_id = i /\ t.date = QueryDay }
    IN  IF rows = {} THEN Null
        ELSE LET t == CHOOSE x \in rows : TRUE
             IN  CASE period = 5 -> t.ma5
                   [] period = 20 -> t.ma20
                   [] period = 60 -> t.ma60
                   [] OTHER -> Null

CloseOf(i) ==
    IF RowsOn(i) = {} THEN Null ELSE (CHOOSE c \in RowsOn(i) : TRUE).close_price

\* (close - ma) / ma * 100 >= b for a positive average, without dividing.
DeviatesBy(close, ma, b) == (close - ma) * 100 >= b * ma

\* An active stock whose close and p-day average are present and whose
\* deviation reaches b.
BreaksOut(i, period, b) ==
    /\ stocks[i].is_active = TRUE
    /\ AverageOf(i, period) # Null
    /\ CloseOf(i) # Null
    /\ DeviatesBy(Val(CloseOf(i)), Val(AverageOf(i, period)), b)

\* C17: ma_breakout with MA period p in {5, 20, 60} and threshold B lists
\* an active stock if and only if its close and its p-day MA on the query
\* date are present and (close - MA) / MA * 100 >= B.
C17_ListedIffBreaksOut ==
    (BreakoutAnswered /\ Requested(req.ma_period, 20) \in {5, 20, 60}
        /\ Requested(req.breakout_percent, 3) > 0 /\ req.limit >= 1)
        => Listed = { i \in StockIds :
                        BreaksOut(i, Requested(req.ma_period, 20),
                                  Requested(req.breakout_percent, 3)) }

\* The period and threshold the handler works with: a value of 0 counts as
\* not given.
BreakoutPeriod == IF req.ma_period \in {Null, Some(0)} THEN 20 ELSE Val(req.ma_period)

BreakoutBar ==
    IF req.breakout_percent \in {Null, Some(0)} THEN 3 ELSE Val(req.breakout_percent)

BreakingOut ==
    { i \in StockIds :
        /\ BreaksOut(i, BreakoutPeriod, BreakoutBar)
        /\ Val(CloseOf(i)) # 0
        /\ Val(AverageOf(i, BreakoutPeriod)) # 0 }

DeviationOf(i) ==
    <<(Val(CloseOf(i)) - Val(AverageOf(i, BreakoutPeriod))) * 100,
      Val(AverageOf(i, BreakoutPeriod))>>

\* C17, amended: every listed stock is active, has a close and a p-day MA
\* that are present and not 0 and a deviation (close - MA) / MA * 100 >= B,
\* and reports that deviation; the list holds each stock once, in
\* descending order of deviation, cut to `limit` entries, so that a
\* qualifying stock is left out only by the cut and never has a higher
\* deviation than a listed one.
C17_ListedAreTopBreakouts ==
    BreakoutAnswered =>
        LET res == resp.results
            out == BreakingOut
        IN  /\ Listed \subseteq out
            /\ \A k \in 1..Len(res) :
                 LET dev == DeviationOf(res[k].stock_id)
                 IN  res[k].metric[1] * dev[2] = dev[1] * res[k].metric[2]
            /\ Cardinality(Listed) = Len(res)
            /\ Len(res) = CutTo(Cardinality(out), req.limit)
            /\ \A k \in 1..(Len(res) - 1) : RatioGE(res[k].metric, res[k + 1].metric)
            /\ \A j \in out \ Listed :
                 \A k \in 1..Len(res) : RatioGE(res[k].metric, DeviationOf(j))

\* p = 20, B = 10, limit 1: the stock with close 121 over MA20 100 is
\* listed and the one with close 110, at exactly 10%, is cut.
C17_Witness ==
    /\ BreakoutAnswered
    /\ req.ma_period = Some(20)
    /\ req.breakout_percent = Some(10)
    /\ req.limit = 1
    /\ Len(resp.results) = 1
    /\ CloseOf(resp.results[1].stock_id) = Some(121)
    /\ \E j \in BreakingOut \ Listed : CloseOf(j) = Some(110)

(***************************************************************************)
(* Properties of the Bollinger signals (SpecSignal).                       *)
(***************************************************************************)
BollingerAnswered ==
    /\ IsSnapshot
    /\ req.signal_type \in {BollingerUpper, BollingerLower}
    /\ resp.kind = "signal_detection"

\* The active stocks whose row on the query date has the flag of the band
\* asked for set.
Touching ==
    { i \in StockIds :
        /\ stocks[i].is_active = TRUE
        /\ \E t \in tech :
             /\ t.stock_id = i
             /\ t.date = QueryDay
             /\ IF req.signal_type = BollingerUpper
                THEN t.bb_upper_touch = Some(TRUE)
                ELSE t.bb_lower_touch = Some(TRUE) }

\* C18: bollinger_upper (bollinger_lower) returns, up to the limit, exactly
\* the active stocks whose row on the query date has the upper (lower)
\* touch flag true; the lower-band signal depends on the lower flag only
\* and the upper-band signal on the upper flag only.
C18_ListedAreTouching ==
    BollingerAnswered =>
        /\ Listed \subseteq Touching
        /\ Cardinality(Listed) = Len(resp.results)
        /\ Len(resp.results) = CutTo(Cardinality(Touching), req.limit)

(***************************************************************************)
(* SpecRepeat: a client that sends the request just answered once more.    *)
(***************************************************************************)
\* The responses the program can give to request r over the store.
Responses(r) ==
    CASE r.op = "find_stock_by_name" ->
           { [kind |-> "stock", status |-> 0, stock_id |-> s] :
               s \in FindStockByName(r.stock, r.market) }
      [] r.op = "signal_query" -> { CatchAll(o) : o \in SignalQueryBody(r) }
      [] r.op = "simple_query" -> { CatchAll(o) : o \in SimpleQueryBody(r) }
      [] r.op = "filter_query" -> { CatchAll(o) : o \in FilterQueryBody(r) }
      [] r.op = "technical_rsi" -> { CatchAll(o) : o \in TechnicalRsiBody(r) }

\* The same request is served again, by the same handler over the same
\* store.
Repeat ==
    /\ req # NoRequest
    /\ \E out \in Responses(req) :
        /\ req' = req
        /\ resp' = out
        /\ UNCHANGED <<store, pool>>

\* Every stock has a row on RefDate with the same rsi and both touch flags
\* set, so that all rank equal.
InitRepeat ==
    /\ stocks \in StockTables
    /\ prices = {}
    /\ tech = { TechRow(i, RefDay, Some(110), Some(100), Null, Some(75), Some(TRUE),
                        Some(TRUE)) : i \in StockIds }
    /\ market_stats = {}
    /\ market_indices = {}
    /\ req = NoRequest
    /\ resp = NoResponse
    /\ PoolAtRest

RepeatRequests ==
    { Snapshot(RefDate, t, Null, Null, Null, Null, l) :
        t \in {RsiOverbought, BollingerUpper, <<"macd">>},
        l \in {1, 15} }

ListQuery == \E r \in RepeatRequests : SignalQuery(r)

NextRepeat == ResolveStock \/ ListQuery \/ Repeat \/ Finish

SpecRepeat == InitRepeat /\ [][NextRepeat]_vars

\* C19: repeating an identical request against an unchanged store returns
\* an identical response, also for a resolver lookup that matches several
\* stocks by substring only and for a list signal whose limit cuts rows of
\* equal rank.
C19_RepeatGivesSameResponse ==
    [][(req # NoRequest /\ req' = req /\ store' = store) => resp' = resp]_vars

GetDb_Shared(t) == 1

\* get_db: SessionLocal() makes a session for the request.
GetDb(t) == t

\* list.sort(key=..., reverse=True): stable, equal keys keep their order.
RECURSIVE SortStable(_)
SortStable(seq) ==
    IF seq = <<>> THEN <<>>
    ELSE LET rest == SortStable(Tail(seq))
             x == Head(seq)
             k == Cardinality({ j \in 1..Len(rest) :
                                  ~RatioGE(x.metric, rest[j].metric) })
         IN  SubSeq(rest, 1, k) \o <<x>> \o SubSeq(rest, k + 1, Len(rest))

ConcurrentProfiles ==
    { PriceProfile(TRUE, MaxPrior, Some(2), Some(2), TRUE, Some(6), Some(100)),
      PriceProfile(TRUE, MaxPrior, Some(2), Some(2), TRUE, Null, Some(100)) }

\* Stock 1 has the series 100/110/90/110 against MA20 = 100.
InitConcurrent ==
    \E pf \in ConcurrentProfiles :
        /\ stocks = [i \in StockIds |-> PlainStock(i, TRUE)]
        /\ prices = UNION { PriceRowsOf(i, IF i = 1 THEN pf
                                           ELSE PriceProfile(TRUE, MaxPrior, Some(2), Some(2),
                                                             TRUE, Some(4), Some(100))) :
                              i \in StockIds }
        /\ tech = TechRowsOf(1, TechProfile(
                      << <<Some(100), Some(100)>>, <<Some(110), Some(100)>>,
                         <<Some(90), Some(100)>>, <<Some(110), Some(100)>> >>,
                      Null, Null, Null, Null))
        /\ market_stats = {}
        /\ market_indices = {}
        /\ req = NoRequest
        /\ resp = NoResponse
        /\ PoolAtRest

ConcurrentRequests ==
    { SignalRequest(NoDate, GoldenCrossCount, Null, Null, Null, Null, q,
                    <<2024, 2, 1>>, b, 20, 15) :
        q \in {<<"a">>, <<"b", "b">>}, b \in {RefDate, NoDate} }
    \cup { SignalRequest(RefDate, VolumeSurge, Null, m, Null, Null, <<>>, NoDate, NoDate,
                         20, 1) :
             m \in {Null, Some(3)} }

\* The thread's handler returns or raises: the response is ready.
Reply(t, outcome) ==
    threads' = [threads EXCEPT ![t].pc = "done", ![t].resp = CatchAll(outcome)]

\* A request arrives and a thread of the pool starts its handler with the
\* session get_db yields.
Accept ==
    \E t \in ThreadIds, r \in ConcurrentRequests :
        /\ threads[t].pc = "idle"
        /\ threads' = [threads EXCEPT
                         ![t] = [req |-> r, pc |-> "start", db |-> GetDb(t),
                                 resp |-> NoResponse]]
        /\ sessions' = [sessions EXCEPT ![GetDb(t)] = NoSession]
        /\ UNCHANGED <<store, req, resp, http_client>>

\* Lines 427-436: the parameter check, then find_stock_by_name.
Resolve ==
    \E t \in ThreadIds :
        LET r == threads[t].req
        IN  /\ threads[t].pc = "start"
            /\ IsCrossCountRequest(r)
            /\ IF r.stock = <<>> \/ r.start_date = NoDate \/ r.end_date = NoDate
               THEN /\ Reply(t, Raise(400, "cross_count_parameters_required"))
                    /\ UNCHANGED sessions
               ELSE \E s \in FindStockByName(r.stock, "ALL") :
                        /\ threads' = [threads EXCEPT ![t].pc = "rows"]
                        /\ sessions' = [sessions EXCEPT ![threads[t].db].found = s]
            /\ UNCHANGED <<store, req, resp, http_client>>

\* Lines 431-487: the rows of the stock the session holds are fetched and
\* scanned.
FetchRows ==
    \E t \in ThreadIds :
        LET r == threads[t].req
            s == sessions[threads[t].db].found
        IN  /\ threads[t].pc = "rows"
            /\ Reply(t, IF s = NoStock THEN Raise(404, "stock_not_found")
                        ELSE IF ParseDateFails(r.start_date) THEN InvalidDate(r.start_date)
                        ELSE IF ParseDateFails(r.end_date) THEN InvalidDate(r.end_date)
                        ELSE CrossCountResponse(r,
                                 SortByDate(CrossRows(s, DayOrdinal(r.start_date),
                                                      DayOrdinal(r.end_date)))))
            /\ UNCHANGED <<store, req, resp, sessions, http_client>>

\* Lines 489-558: the date is parsed and current_query scans the market;
\* its rows come back in the store's order.
Scan ==
    \E t \in ThreadIds :
        LET r == threads[t].req
        IN  /\ threads[t].pc = "start"
            /\ ~IsCrossCountRequest(r)
            /\ IF r.date = NoDate \/ ParseDateFails(r.date) \/ r.signal_type # VolumeSurge
               THEN /\ \E o \in SnapshotSignal(r) : Reply(t, o)
                    /\ UNCHANGED sessions
               ELSE \E p \in Perms(CurrentRows(DayOrdinal(r.date))) :
                        /\ threads' = [threads EXCEPT ![t].pc = "prior"]
                        /\ sessions' = [sessions EXCEPT ![threads[t].db].pending = p]
            /\ UNCHANGED <<store, req, resp, http_client>>

\* Lines 531-558: one turn of the loop, with avg_volume_query for the next
\* row the session holds.
FetchPrior ==
    \E t \in ThreadIds :
        LET r == threads[t].req
            db == threads[t].db
            d == DayOrdinal(r.date)
            multiplier == IF Truthy(r.volume_multiplier) THEN Val(r.volume_multiplier)
                          ELSE 1
        IN  /\ threads[t].pc = "prior"
            /\ sessions[db].pending # <<>>
            /\ LET c == Head(sessions[db].pending)
               IN  IF SurgeRowRaises(c, d, r.period)
                   THEN /\ Reply(t, Raise(0, "TypeError"))
                        /\ UNCHANGED sessions
                   ELSE /\ sessions' =
                             [sessions EXCEPT
                                ![db].pending = Tail(@),
                                ![db].acc =
                                    IF SurgeRowQualifies(c, d, r.period, multiplier)
                                    THEN Append(@, Entry(c.stock_id,
                                             SurgeRatio(c, PriorWindow(c.stock_id, d,
                                                                       r.period))))
                                    ELSE @]
                        /\ UNCHANGED threads
            /\ UNCHANGED <<store, req, resp, http_client>>

\* Lines 560-565 and 642-652: the loop is over; sort, cut and answer.
Respond ==
    \E t \in ThreadIds :
        LET r == threads[t].req
            db == threads[t].db
        IN  /\ threads[t].pc = "prior"
            /\ sessions[db].pending = <<>>
            /\ Reply(t, SignalResponse(r, PySlice(SortStable(sessions[db].acc), r.limit),
                                       r.threshold))
            /\ UNCHANGED <<store, req, resp, sessions, http_client>>

\* The response is sent and get_db's finally closes the session.
Return ==
    \E t \in ThreadIds :
        /\ threads[t].pc = "done"
        /\ threads' = [threads EXCEPT ![t] = IdleThread]
        /\ sessions' = [sessions EXCEPT ![threads[t].db] = NoSession]
        /\ UNCHANGED <<store, req, resp, http_client>>

NextConcurrent ==
    Accept \/ Resolve \/ FetchRows \/ Scan \/ FetchPrior \/ Respond \/ Return

SpecConcurrent == InitConcurrent /\ [][NextConcurrent]_vars

\* The requests that are in progress in threads other than t.
Others(t) == { u \in ThreadIds \ {t} : threads[u].pc # "idle" }

\* C21: when requests run concurrently with their store queries
\* interleaved in any order, each request's response is one it gives when
\* run alone on the same store, and between its sequential queries it
\* holds what its own earlier query loaded: the stock it resolved, the
\* market rows it scanned.
C21_ConcurrentAsAlone ==
    \A t \in ThreadIds :
        LET r == threads[t].req
            own == sessions[threads[t].db]
        IN  /\ threads[t].pc = "done" => threads[t].resp \in Responses(r)
            /\ threads[t].pc = "rows" => own.found \in FindStockByName(r.stock, "ALL")
            /\ threads[t].pc = "prior" =>
                   \E p \in Perms(CurrentRows(DayOrdinal(r.date))) :
                       \E k \in 0..Len(p) : own.pending = SubSeq(p, k + 1, Len(p))

\* Two requests of different kinds are answered while the other is between
\* its queries.
C21_Witness ==
    /\ threads[1].pc = "done"
    /\ threads[1].resp.kind = "cross_count"
    /\ threads[1].resp.golden_cross_count = 2
    /\ threads[2].pc = "prior"
    /\ Len(sessions[threads[2].db].acc) = 1
    /\ Others(1) = {2}

(***************************************************************************)
(* SpecFaults: store queries that fail.  A failing query raises the        *)
(* driver's exception, whose text is the store's; where in a call the      *)
(* store fails is the environment's choice.                                *)
(***************************************************************************)
ExceptionTexts == { "connection refused", "table missing" }

\* The exception a failing db.query(...) raises: not an HTTPException.
StoreError(x) == Raise(0, x)

\* simple_query, lines 278-282: the detail is "Error: " + str(e) followed by
\* traceback.format_exc(), which ends with the exception and its text.
TracebackDetail(outcome) ==
    IF outcome.kind = "raise"
    THEN HttpError(500, <<"Error", outcome.status, outcome.cause,
                          "Traceback", outcome.status, outcome.cause>>)
    ELSE outcome

\* The response of a handler whose store query failed with r.store_error.
FailureResponse(r) ==
    IF r.op = "simple_query" THEN TracebackDetail(StoreError(r.store_error))
    ELSE CatchAll(StoreError(r.store_error))

\* Requests with a valid date, each with the text of the exception the
\* store raises at the handler's first query.
FaultedRequests ==
    { r @@ [store_error |-> x] :
        r \in { Snapshot(RefDate, t, Null, Null, Null, Null, 15) :
                  t \in {RsiOverbought, VolumeSurge, BollingerUpper, MaBreakout} }
              \cup { SimpleRequest(<<"a">>, RefDate, "close", "", "", "desc", "KOSPI", 5) }
              \cup { FilterRequest(RefDate, Null, Null, Null, Null, Null, Null, "ALL", 5) },
        x \in ExceptionTexts }

\* A handler's first store query fails.
StoreQueryFails ==
    /\ Idle
    /\ \E r \in FaultedRequests :
        /\ req' = r
        /\ resp' = FailureResponse(r)
        /\ UNCHANGED <<store, pool>>

\* The same request meets a failure of the store once more.
FailsAgain ==
    /\ req \in FaultedRequests
    /\ \E r \in FaultedRequests :
        /\ [r EXCEPT !.store_error = ""] = [req EXCEPT !.store_error = ""]
        /\ req' = r
        /\ resp' = FailureResponse(r)
        /\ UNCHANGED <<store, pool>>

\* The store queries find_stock_by_name can issue: the four lookups and
\* the listing of all names.
ResolverQueries == 5

\* The queries a call issues when the store does not fail: it returns at
\* the first lookup with a row.
QueriesIssued(base, q) ==
    IF ExactNameMatches(base, q) # {} THEN 1
    ELSE IF SymbolMatches(base, q) # {} THEN 2
    ELSE IF KrxCodeMatches(base, q) # {} THEN 3
    ELSE IF PartialMatches(base, q) # {} THEN 4
    ELSE ResolverQueries

\* Variant: the store's exception leaves the resolver.
FindStockByNameTry_Propagates(q, market, failAt) ==
    LET base == ActiveStocks(market)
        n == QueriesIssued(base, q)
    IN  IF failAt \in 1..n
        THEN { [kind |-> "raise", status |-> 0, cause |-> "store", queries |-> failAt] }
        ELSE { [kind |-> "stock", status |-> 0, stock_id |-> s, queries |-> n] :
                 s \in StagedLookup(base, q) }

\* find_stock_by_name with its try/except (lines 16-59), the store failing
\* at the call's failAt-th query (0: not at all): the except clause returns
\* None.
FindStockByNameTry(q, market, failAt) ==
    LET base == ActiveStocks(market)
        n == QueriesIssued(base, q)
    IN  IF failAt \in 1..n
        THEN { [kind |-> "stock", status |-> 0, stock_id |-> NoStock, queries |-> failAt] }
        ELSE { [kind |-> "stock", status |-> 0, stock_id |-> s, queries |-> n] :
                 s \in StagedLookup(base, q) }

ResolveUnderFault ==
    /\ Idle
    /\ \E q \in QueryTexts, m \in MarketFilters, k \in 0..ResolverQueries :
        \E out \in FindStockByNameTry(q, m, k) :
            /\ req' = [op |-> "find_stock_by_name", stock |-> q, market |-> m,
                       fail_at |-> k]
            /\ resp' = out
            /\ UNCHANGED <<store, pool>>

InitFaults == InitResolver

NextFaults == StoreQueryFails \/ FailsAgain \/ ResolveUnderFault \/ Finish

SpecFaults == InitFaults /\ [][NextFaults]_vars

\* A request answered after one of its store queries failed.
StoreFailed(r) == r # NoRequest /\ "store_error" \in DOMAIN r

\* C22: when a store query fails unexpectedly inside a handler, the
\* response is an internal error whose body does not depend on the
\* exception: two failures of the same request that differ only in the
\* store's exception text produce identical responses.
C22_FailureBodyIsGeneric ==
    [][(/\ StoreFailed(req)
        /\ StoreFailed(req')
        /\ [req EXCEPT !.store_error = ""] = [req' EXCEPT !.store_error = ""])
          => (resp'.status = 500 /\ resp' = resp)]_vars

\* The lookups of the call that come before its k-th query found nothing.
EmptyBefore(k) ==
    /\ (k > 1 => ByName = {})
    /\ (k > 2 => BySymbol = {})
    /\ (k > 3 => ByCode = {})
    /\ (k > 4 => ByContainment = {})

\* The call whose k-th query the store fails reaches that query.
FailureHit ==
    /\ ResolverCalled
    /\ "fail_at" \in DOMAIN req
    /\ req.fail_at >= 1
    /\ EmptyBefore(req.fail_at)

\* C30: find_stock_by_name never propagates an exception: when one of its
\* store queries fails it issues no further query and returns None, the
\* outcome of an unknown stock.
C30_ResolverSwallowsFailure ==
    (ResolverCalled /\ "fail_at" \in DOMAIN req) =>
        /\ resp.kind = "stock"
        /\ FailureHit => (resp.stock_id = NoStock /\ resp.queries = req.fail_at)
        /\ (req.fail_at >= 1 /\ ~FailureHit) => resp.queries < req.fail_at

\* The symbol lookup fails for a query that a symbol would have matched.
C30_Witness ==
    /\ FailureHit
    /\ req.fail_at = 2
    /\ BySymbol # {}
    /\ resp.stock_id = NoStock
    /\ resp.queries = 2

(***************************************************************************)
(* The limit parameter (SpecVolume).                                       *)
(***************************************************************************)
\* C23: a request whose limit is out of range (limit <= 0, or above the
\* maximum of 100) is rejected with a validation (bad-request) error; no
\* list endpoint returns a result list for a non-positive limit.
C23_OutOfRangeLimitIs400 ==
    (/\ req # NoRequest
     /\ "limit" \in DOMAIN req
     /\ (req.limit <= 0 \/ req.limit > 100))
        => (resp.kind = "error" /\ resp.status = 400)

(***************************************************************************)
(* SpecRanked: the two ranked signals, volume_surge and ma_breakout, over  *)
(* stocks whose surge ratios and deviations differ.                        *)
(***************************************************************************)
\* <<current volume, close, ma5>> of a stock; the prior volumes are 2
\* and MA20 is 100.
RankedProfiles == { <<4, 121, 100>>, <<6, 110, 110>>, <<2, 105, 100>>, <<8, 99, 90>> }

InitRanked ==
    \E pf \in [StockIds -> RankedProfiles] :
        /\ stocks = [i \in StockIds |-> PlainStock(i, TRUE)]
        /\ prices = UNION { PriceRowsOf(i, PriceProfile(TRUE, MaxPrior, Some(2), Some(2), TRUE,
                                                        Some(pf[i][1]), Some(pf[i][2]))) :
                              i \in StockIds }
        /\ tech = UNION { TechRowsOf(i, TechProfile(<< <<Some(pf[i][3]), Some(100)>> >>,
                                                    Null, Null, Null, Null)) :
                            i \in StockIds }
        /\ market_stats = {}
        /\ market_indices = {}
        /\ req = NoRequest
        /\ resp = NoResponse
        /\ PoolAtRest

RankedLimits == {0, 1, 2, 15}

RankedVolumeRequests ==
    { Snapshot(RefDate, VolumeSurge, Null, m, Null, Null, l) :
        m \in {Null, Some(0), Some(2), Some(3)}, l \in RankedLimits }

RankedBreakoutRequests ==
    { Snapshot(RefDate, MaBreakout, Null, Null, mp, pct, l) :
        mp \in {Null, Some(5)}, pct \in {Null, Some(0), Some(10)}, l \in RankedLimits }

RankedVolumeQuery == \E r \in RankedVolumeRequests : SignalQuery(r)

RankedBreakoutQuery == \E r \in RankedBreakoutRequests : SignalQuery(r)

NextRanked == RankedVolumeQuery \/ RankedBreakoutQuery \/ Finish

SpecRanked == InitRanked /\ [][NextRanked]_vars

\* The list is the first `limit` entries of the stocks `qual` ranked by
\* their metric in non-increasing order, metric[i] being the metric of
\* stock i.
IsTopOfRanking(qual, metric) ==
    LET res == resp.results
    IN  /\ Listed \subseteq qual
        /\ Cardinality(Listed) = Len(res)
        /\ Len(res) <= req.limit
        /\ (Len(res) < req.limit => Listed = qual)
        /\ \A k \in 1..Len(res) :
             res[k].metric[1] * metric[res[k].stock_id][2]
                 = metric[res[k].stock_id][1] * res[k].metric[2]
        /\ \A k \in 1..(Len(res) - 1) : RatioGE(res[k].metric, res[k + 1].metric)
        /\ \A i \in qual \ Listed, j \in Listed : RatioGE(metric[j], metric[i])

\* C24: for volume_surge and ma_breakout with limit >= 0, the returned
\* list is the first `limit` entries of all qualifying stocks sorted by the
\* metric (surge ratio, deviation) in non-increasing order: it has at most
\* `limit` entries, is itself in non-increasing metric order, and no
\* qualifying stock left out has a strictly larger metric than a stock that
\* is returned.
C24_ListIsFirstOfRanking ==
    /\ (SurgeAnswered /\ req.limit >= 0) =>
           LET qual == SurgingStocks
           IN  IsTopOfRanking(qual, [i \in qual |-> RatioOf(i)])
    /\ (BreakoutAnswered /\ req.limit >= 0) =>
           LET qual == BreakingOut
           IN  IsTopOfRanking(qual, [i \in qual |-> DeviationOf(i)])

\* Two stocks qualify with different surge ratios and the limit of 1 keeps
\* the one with the larger ratio.
C24_Witness ==
    /\ SurgeAnswered
    /\ req.limit = 1
    /\ Cardinality(SurgingStocks) = 2
    /\ Len(resp.results) = 1
    /\ \E i \in SurgingStocks \ Listed :
         ~RatioGE(RatioOf(i), resp.results[1].metric)

(***************************************************************************)
(* Alternation of the counted crosses (SpecCross).                         *)
(***************************************************************************)
\* Pair x ends no later than pair y begins.
Precedes(x, y) == x[2].date <= y[1].date

\* C25: in any indicator series the golden and dead crosses counted by the
\* scan are real crossings and therefore alternate: between two counted
\* golden crosses there is a counted dead cross and between two counted
\* dead crosses a counted golden cross, so golden_cross_count and
\* dead_cross_count differ by at most 1.
C25_CrossesAlternate ==
    CrossAnswered =>
        LET ups == { x \in AdjacentPairs : CrossesUp(x) }
            downs == { x \in AdjacentPairs : CrossesDown(x) }
        IN  /\ \A x, y \in ups :
                 (x # y /\ Precedes(x, y))
                    => \E z \in downs : Precedes(x, z) /\ Precedes(z, y)
            /\ \A x, y \in downs :
                 (x # y /\ Precedes(x, y))
                    => \E z \in ups : Precedes(x, z) /\ Precedes(z, y)
            /\ resp.golden_cross_count - resp.dead_cross_count \in {-1, 0, 1}

(***************************************************************************)
(* The dispatch of signal_query (SpecSignal).                              *)
(***************************************************************************)
\* C26: signal_query treats a request as a cross-count request when
\* signal_type ends with "_count" or when stock, start_date and end_date
\* are all supplied; a cross-count request that lacks any of the three
\* fails as bad-request, and a cross-count request never evaluates a
\* snapshot signal even when date and a snapshot signal_type are supplied.
C26_CrossCountDispatch ==
    (/\ req.op = "signal_query"
     /\ \/ EndsWithCount(req.signal_type)
        \/ (req.stock # <<>> /\ req.start_date # NoDate /\ req.end_date # NoDate))
        => /\ resp.kind # "signal_detection"
           /\ (req.stock = <<>> \/ req.start_date = NoDate \/ req.end_date = NoDate)
                 => (resp.kind = "error" /\ resp.status = 400)

(***************************************************************************)
(* The period of ma_breakout (SpecBreakout).                               *)
(***************************************************************************)
\* ma_breakout asked, with a valid date, for an average the rows do not
\* select: a period that is given, not 0 and none of 5, 20 and 60.
OtherPeriodAsked ==
    /\ IsSnapshot
    /\ req.signal_type = MaBreakout
    /\ req.ma_period \notin {Null, Some(0), Some(5), Some(20), Some(60)}

\* C27: ma_breakout with a non-zero ma_period outside {5, 20, 60} selects
\* no moving average, so for every store content it returns a success
\* response with an empty result list rather than a bad-request error.
C27_OtherPeriodIsEmptySuccess ==
    OtherPeriodAsked =>
        /\ resp.kind = "signal_detection"
        /\ resp.status = 200
        /\ resp.results = <<>>

\* Period 10 over a store where a stock is 21% above its 20-day average.
C27_Witness ==
    /\ OtherPeriodAsked
    /\ req.ma_period = Some(10)
    /\ req.limit = 15
    /\ resp.results = <<>>
    /\ \E i \in StockIds : BreaksOut(i, 20, 10)

(***************************************************************************)
(* SpecScans: the cross-count scan of routes/query.py and the one of       *)
(* routes/query_backup.py over the same rows.                              *)
(***************************************************************************)
\* Variant: the second test counts a fall onto the average as well.
RECURSIVE BackupCrossScan_DeadOnTouch(_, _, _, _)
BackupCrossScan_DeadOnTouch(seq, i, golden, dead) ==
    IF i > Len(seq) THEN <<golden, dead>>
    ELSE LET prev == seq[i - 1]
             curr == seq[i]
             g == IF Val(prev.ma5) <= Val(prev.ma20) /\ Val(curr.ma5) > Val(curr.ma20)
                  THEN 1 ELSE 0
             d == IF Val(prev.ma5) >= Val(prev.ma20) /\ Val(curr.ma5) <= Val(curr.ma20)
                  THEN 1 ELSE 0
         IN  BackupCrossScan_DeadOnTouch(seq, i + 1, golden + g, dead + d)

\* query_backup.py, lines 417-430: the loop from index i on, with two
\* independent tests on each pair and no early return for a short list.
RECURSIVE BackupCrossScan(_, _, _, _)
BackupCrossScan(seq, i, golden, dead) ==
    IF i > Len(seq) THEN <<golden, dead>>
    ELSE LET prev == seq[i - 1]
             curr == seq[i]
             g == IF Val(prev.ma5) <= Val(prev.ma20) /\ Val(curr.ma5) > Val(curr.ma20)
                  THEN 1 ELSE 0
             d == IF Val(prev.ma5) >= Val(prev.ma20) /\ Val(curr.ma5) < Val(curr.ma20)
                  THEN 1 ELSE 0
         IN  BackupCrossScan(seq, i + 1, golden + g, dead + d)

\* Both scans run over the rows of stock 1 in [a, b] that have both
\* averages, in date order.
ScanRequests ==
    { SignalRequest(NoDate, <<"cross", "count">>, Null, Null, Null, Null, <<"a">>, a, b,
                    20, 15) :
        a \in {<<2024, 2, 1>>, <<2024, 2, 29>>, RefDate}, b \in {DayBefore, RefDate} }

CompareScans ==
    /\ Idle
    /\ \E r \in ScanRequests :
        LET seq == SortByDate(CrossRows(1, DayOrdinal(r.start_date),
                                        DayOrdinal(r.end_date)))
            now == CrossCountResponse(r, seq)
        IN  /\ req' = [r EXCEPT !.op = "cross_scan"]
            /\ resp' = [kind |-> "scans", status |-> 0, rows |-> Len(seq),
                        current |-> <<now.golden_cross_count, now.dead_cross_count>>,
                        backup |-> BackupCrossScan(seq, 2, 0, 0)]
            /\ UNCHANGED <<store, pool>>

NextScans == CompareScans \/ Finish

SpecScans == InitCross /\ [][NextScans]_vars

\* C28: the scan of query.py (if/elif, early return below two rows) and
\* the scan of query_backup.py (two independent ifs, no early return)
\* compute the same golden_cross_count and dead_cross_count for every
\* sequence of qualifying rows, sequences of length 0 and 1 included.
C28_ScansAgree == req.op = "cross_scan" => resp.current = resp.backup

\* Four qualifying rows that fall onto the average and rise again: both
\* scans count two golden crosses and one dead cross.
C28_Witness ==
    /\ req.op = "cross_scan"
    /\ resp.rows = 4
    /\ resp.backup = <<2, 1>>
    /\ \E t \in tech : t.ma5 = t.ma20

(***************************************************************************)
(* SpecFinancial: get_financial_report of routes/financial.py.  The        *)
(* module creates one httpx.AsyncClient at import and every per-year fetch *)
(* enters it with `async with`.  A client is unopened when created;        *)
(* entering an unopened client opens it, entering any other raises         *)
(* RuntimeError, and leaving the block closes it.                          *)
(***************************************************************************)
\* years = [current_year - i for i in range(3, 0, -1)]
YearsFetched == 3

\* Lines 32-44: the name lookup, then the lookup over name, symbol and code.
FinancialLookup(q) ==
    LET base == ActiveStocks("ALL")
        byName == { i \in base : ColumnContains(stocks[i].name, q) }
    IN  IF byName # {} THEN First(byName) ELSE First(PartialMatches(base, q))

\* What a fetch on an open client can add to all_financial_data: the
\* accounts, the note that the year has no data, the API's error status,
\* or the except clause's entry for an exception of client.get.
FetchResults == { "accounts", "no_data", "api_error", "fetch_failed" }

YearEntry(client, result) == [client |-> client, result |-> result]

\* The company asked for, and whether DART_API_KEY is set.
FinancialRequests ==
    [op : {"financial_report"}, company : {<<"a">>, <<"b", "b">>}, dart_api_key : BOOLEAN]

\* Lines 26-72: the stock is looked up; an unknown company is answered at
\* once with no financial data.
StartReport ==
    /\ Idle
    /\ \E r \in FinancialRequests :
        \E s \in FinancialLookup(r.company) :
            /\ req' = r
            /\ resp' = IF s = NoStock
                       THEN [kind |-> "report", status |-> 200, corp |-> "UNKNOWN",
                             financial_data |-> <<>>]
                       ELSE [kind |-> "collecting", status |-> 0, corp |-> s,
                             financial_data |-> <<>>]
            /\ UNCHANGED <<store, pool>>

\* Lines 75-87: without a key the year gets test data and no fetch is made.
TestData ==
    /\ req.op = "financial_report"
    /\ resp.kind = "collecting"
    /\ Len(resp.financial_data) < YearsFetched
    /\ ~req.dart_api_key
    /\ resp' = [resp EXCEPT !.financial_data = Append(@, YearEntry("none", "test_data"))]
    /\ UNCHANGED <<store, pool, req>>

\* Lines 90-134: one turn of the loop with a key.  `async with http_client`
\* enters the shared client; on an unopened client the fetch is made and
\* the block's exit closes the client, on any other the RuntimeError of the
\* entry is caught by the except clause of line 128.
FetchYear ==
    /\ req.op = "financial_report"
    /\ resp.kind = "collecting"
    /\ Len(resp.financial_data) < YearsFetched
    /\ req.dart_api_key
    /\ IF http_client = "unopened"
       THEN /\ \E result \in FetchResults :
                resp' = [resp EXCEPT
                           !.financial_data = Append(@, YearEntry("open", result))]
            /\ http_client' = "closed"
       ELSE /\ resp' = [resp EXCEPT
                          !.financial_data =
                              Append(@, YearEntry(http_client, "client_unusable"))]
            /\ http_client' = http_client
    /\ UNCHANGED <<store, req, threads, sessions>>

\* Lines 136-188: the report is returned.
ReturnReport ==
    /\ req.op = "financial_report"
    /\ resp.kind = "collecting"
    /\ Len(resp.financial_data) = YearsFetched
    /\ resp' = [resp EXCEPT !.kind = "report", !.status = 200]
    /\ UNCHANGED <<store, pool, req>>

InitFinancial ==
    /\ stocks \in { t \in StockTables : \A i \in StockIds : t[i].krx_code = Null }
    /\ prices = {}
    /\ tech = {}
    /\ market_stats = {}
    /\ market_indices = {}
    /\ req = NoRequest
    /\ resp = NoResponse
    /\ PoolAtRest

NextFinancial == StartReport \/ TestData \/ FetchYear \/ ReturnReport \/ Finish

SpecFinancial == InitFinancial /\ [][NextFinancial]_vars

\* C29: with a DART API key configured, the shared HTTP client is usable
\* at every request it is asked to make: within one get_financial_report
\* call each of the three per-year fetches is issued on an open client, and
\* so is the first fetch of every later call.
C29_SharedClientStaysUsable ==
    (req.op = "financial_report" /\ req.dart_api_key)
        => \A k \in 1..Len(resp.financial_data) :
               /\ resp.financial_data[k].client = "open"
               /\ resp.financial_data[k].result \in FetchResults

====
